---- MODULE Spec2Model ----
(***************************************************************************)
(* Plato bot: weekly plan staging / approval against the external          *)
(* calendar (plato/actions.py, plato_calendar.py, plato/db/schedule.py)    *)
(* and the main-lift progression cascade (plato/db/fitness.py).            *)
(*                                                                         *)
(* Dates "YYYY-MM-DD" are triples <<y, m, d>>, times "HH:MM" are pairs     *)
(* <<h, m>>, titles and exercise names are sequences of words.  A          *)
(* collaborator call that may raise takes its outcome from an oracle       *)
(* argument chosen by the action.                                          *)
(***************************************************************************)
EXTENDS Integers, Sequences, FiniteSets, TLC

\* ------------------------------------------------------------- bounds
MaxPlanLen == 2
MaxCalId == 3
MaxRows == 3
MaxEntries == 2
MaxSessions == 2
MaxDayRows == 2
MaxWeekRows == 4
MaxBlocks == 2
MaxWeek == 40
MaxPolls == 3

VARIABLES
    pending_plan,      \* table pending_plan: rows in created_at order
    calendar,          \* the external calendar: a set of events
    next_cal_id,       \* next event id the calendar hands out
    schedule_events,   \* table schedule_events: rows in insertion order
    last,              \* what the last handler did and returned
    faulted,           \* history: some collaborator call has raised so far
    main_lift_progress,   \* table main_lift_progress, in insertion order
    workout_templates,    \* table workout_templates, by session_type, exercise_order
    training_sessions,    \* table training_sessions, in insertion order
    training_exercises,   \* table training_exercises, in insertion order
    training_blocks,      \* table training_blocks, in insertion order
    today,                \* datetime.now(): an index into LiftDays
    last_lift,            \* what the last fitness operation did and returned
    clock,                \* datetime.now(): minutes since midnight of the day
    nudge,                \* check_for_nudges: where the job stands
    sent,                 \* the check-in prompts sent, as event ids in order
    conversations,        \* table conversations, in insertion order
    replies,              \* what update.message.reply_text has sent, in order
    idea_parking_lot,     \* table idea_parking_lot, in insertion order
    transactions,         \* table transactions, in insertion order
    nutrition_logs,       \* table nutrition_logs, unique on date
    last_io               \* what the last message or import did and returned

plan_vars == <<pending_plan, calendar, next_cal_id, schedule_events, last, faulted>>

lift_vars == <<main_lift_progress, workout_templates, training_sessions,
               training_exercises, training_blocks, today, last_lift>>

\* the poll of check_for_nudges
nudge_vars == <<clock, nudge, sent>>

\* the conversation, the idea store and the import tables
io_vars == <<conversations, replies, idea_parking_lot, transactions, nutrition_logs, last_io>>

vars == <<plan_vars, lift_vars, nudge_vars, io_vars>>

PLATO == "[Plato]"
ZERO_UUID == "00000000-0000-0000-0000-000000000000"
GEN_UUID == "gen_random_uuid"

\* ------------------------------------------------ datetime arithmetic
IsLeap(y) == (y % 4 = 0) /\ ((y % 100 # 0) \/ (y % 400 = 0))

DaysInMonth(y, m) ==
    IF m = 2 THEN (IF IsLeap(y) THEN 29 ELSE 28)
    ELSE IF m \in {4, 6, 9, 11} THEN 30 ELSE 31

RECURSIVE DaysBeforeMonth(_, _)
DaysBeforeMonth(y, m) ==
    IF m = 1 THEN 0 ELSE DaysBeforeMonth(y, m - 1) + DaysInMonth(y, m - 1)

DaysBeforeYear(y) ==
    (y - 1) * 365 + ((y - 1) \div 4) - ((y - 1) \div 100) + ((y - 1) \div 400)

\* datetime.strptime(s, "%Y-%m-%d") as a proleptic Gregorian ordinal
strptime(s) == DaysBeforeYear(s[1]) + DaysBeforeMonth(s[1], s[2]) + s[3]

\* datetime.weekday(): Monday is 0
weekday(ord) == (ord + 6) % 7

\* an RFC 3339 instant, in minutes; the dates of the model lie in winter
\* time, where Europe/Dublin is UTC
instant(ord, hm) == ord * 1440 + hm[1] * 60 + hm[2]

contains(text, word) == \E i \in 1..Len(text) : text[i] = word

Orderings(S) ==
    {f \in [1..Cardinality(S) -> S] : \A i, j \in 1..Cardinality(S) : f[i] = f[j] => i = j}

\* ------------------------------------------------------------ inputs
ProposedEvents ==
    { [date |-> <<2026, 2, 8>>, start |-> <<10, 45>>, end |-> <<12, 0>>,
       title |-> <<"CFA", "Ethics">>, category |-> "cfa"],
      [date |-> <<2026, 2, 9>>, start |-> <<7, 30>>, end |-> <<9, 0>>,
       title |-> <<"LeetCode">>, category |-> "leetcode"] }

\* blocks for Monday 2026-02-02 (free from 19:40)
DayEvents ==
    [long |-> [date |-> <<2026, 2, 2>>, start |-> <<19, 40>>, end |-> <<22, 0>>,
               title |-> <<"Nitrogen">>, category |-> "nitrogen"],
     short |-> [date |-> <<2026, 2, 2>>, start |-> <<20, 0>>, end |-> <<21, 0>>,
                title |-> <<"LeetCode">>, category |-> "leetcode"]]

\* plans for the evening of the day
DayPlans == { <<DayEvents.long>>, <<DayEvents.short>> }

Plans == UNION {[1..n -> ProposedEvents] : n \in 1..MaxPlanLen}

\* events the user keeps in the same calendar: one mentions the bot in its
\* description only
UserEvents ==
    { [id |-> 0, summary |-> <<"Dentist">>, description |-> <<"moved", "by", PLATO>>,
       date |-> <<2026, 2, 3>>, start |-> <<17, 0>>, end |-> <<18, 0>>] }

Blank ==
    [op |-> "init", result |-> "none", events |-> <<>>, replaced_other |-> FALSE,
     step |-> "none", week_start |-> 0, list_calls |-> 0, listed |-> {},
     delete_attempts |-> 0, removed |-> {},
     cleared |-> 0, create_attempts |-> 0, created |-> 0, create_failed |-> {},
     stored |-> 0,
     date |-> <<>>, from_time |-> <<>>, cancelled |-> <<>>,
     affected |-> {}, event_id |-> 0, status |-> "none", now |-> <<>>, target |-> 0,
     prev_status |-> "none", stats |-> <<>>, template |-> <<>>]

\* ------------------------------------------------------ pending plans
json_dumps(events) == [json |-> events]
json_loads(text) == text.json

delete_all_pending(rows) == SelectSeq(rows, LAMBDA r : ~(r.id # ZERO_UUID))

store_pending_plan_first_wins(rows, events) ==
    IF rows # <<>> THEN rows
    ELSE Append(rows, [id |-> GEN_UUID, events |-> json_dumps(events)])

store_pending_plan_no_delete(rows, events) ==
    Append(rows, [id |-> GEN_UUID, events |-> json_dumps(events)])

store_pending_plan(rows, events) ==
    Append(delete_all_pending(rows), [id |-> GEN_UUID, events |-> json_dumps(events)])

\* order("created_at", desc=True).limit(1); None is [some |-> FALSE]
get_pending_plan(rows) ==
    IF rows # <<>>
    THEN [some |-> TRUE, value |-> json_loads(rows[Len(rows)].events)]
    ELSE [some |-> FALSE, value |-> <<>>]

clear_pending_plan(rows) == delete_all_pending(rows)

\* Python truth value of the result of get_pending_plan
falsy(r) == ~r.some \/ Len(r.value) = 0

plan_week(pool) ==
    \E events \in pool :
        IF Len(events) = 0
        THEN /\ last' = [Blank EXCEPT !.op = "plan_week", !.result = "no_events"]
             /\ UNCHANGED <<pending_plan, calendar, next_cal_id, schedule_events, faulted, lift_vars, nudge_vars, io_vars>>
        ELSE /\ pending_plan' = store_pending_plan(pending_plan, events)
             /\ last' = [Blank EXCEPT !.op = "plan_week", !.result = "proposed",
                                      !.events = events,
                                      !.replaced_other =
                                          LET old == get_pending_plan(pending_plan)
                                          IN  old.some /\ old.value # events]
             /\ UNCHANGED <<calendar, next_cal_id, schedule_events, faulted, lift_vars, nudge_vars, io_vars>>

process_plan_week == plan_week(Plans \cup {<<>>})

\* the same handler, given a plan for Monday 2026-02-02
process_plan_week_day == plan_week(DayPlans)

do_clear_pending_plan ==
    /\ pending_plan' = clear_pending_plan(pending_plan)
    /\ last' = [Blank EXCEPT !.op = "clear_pending", !.result = "ok"]
    /\ UNCHANGED <<calendar, next_cal_id, schedule_events, faulted, lift_vars, nudge_vars, io_vars>>

\* --------------------------------------------------- calendar service
\* events().list(timeMin, timeMax, singleEvents, q): events ending after
\* timeMin and starting before timeMax whose text fields match q
events_list(cal, timeMin, timeMax, q) ==
    {e \in cal :
        /\ instant(strptime(e.date), e.end) > timeMin
        /\ instant(strptime(e.date), e.start) < timeMax
        /\ (contains(e.summary, q) \/ contains(e.description, q))}

\* the listing of clear_plato_events for the week starting at ordinal week_start
week_listing(cal, week_start) ==
    events_list(cal, instant(week_start, <<0, 0>>), instant(week_start + 7, <<0, 0>>), PLATO)

is_plato_event_unfiltered(event) == TRUE

\* '[Plato]' in event.get('summary', '')
is_plato_event(event) == contains(event.summary, PLATO)

\* the loop of clear_plato_events over the listed items; the fail_at-th
\* delete call raises (0: none does)
RECURSIVE clear_loop(_, _, _, _)
clear_loop(items, i, st, fail_at) ==
    IF i > Len(items) THEN st
    ELSE IF is_plato_event(items[i])
    THEN IF st.delete_attempts + 1 = fail_at
         THEN [st EXCEPT !.delete_attempts = @ + 1, !.raised = TRUE]
         ELSE clear_loop(items, i + 1,
                         [st EXCEPT !.calendar = @ \ {items[i]},
                                    !.delete_attempts = @ + 1,
                                    !.removed = @ \cup {items[i]},
                                    !.deleted = @ + 1],
                         fail_at)
    ELSE clear_loop(items, i + 1, st, fail_at)

\* items: the listing in the order the service returned it
clear_plato_events(cal, items, fail_at) ==
    clear_loop(items, 1,
               [calendar |-> cal, delete_attempts |-> 0, removed |-> {},
                deleted |-> 0, raised |-> FALSE],
               fail_at)

create_event(id, date_str, start_time, end_time, title) ==
    [id |-> id, summary |-> <<PLATO>> \o title, description |-> <<>>,
     date |-> date_str, start |-> start_time, end |-> end_time]

RECURSIVE create_loop_abort(_, _, _, _)
create_loop_abort(events, i, st, create_fail) ==
    IF i > Len(events) THEN st
    ELSE IF i \in create_fail
    THEN [st EXCEPT !.attempts = @ + 1]
    ELSE create_loop_abort(events, i + 1,
                     [st EXCEPT !.attempts = @ + 1,
                                !.created_count = @ + 1,
                                !.calendar = @ \cup {create_event(st.next_id, events[i].date,
                                                       events[i].start, events[i].end,
                                                       events[i].title)},
                                !.next_id = @ + 1],
                     create_fail)

\* the loop of create_weekly_events; the calls numbered in create_fail raise
RECURSIVE create_loop(_, _, _, _)
create_loop(events, i, st, create_fail) ==
    IF i > Len(events) THEN st
    ELSE IF i \in create_fail
    THEN create_loop(events, i + 1, [st EXCEPT !.attempts = @ + 1], create_fail)
    ELSE create_loop(events, i + 1,
                     [st EXCEPT !.attempts = @ + 1,
                                !.created_count = @ + 1,
                                !.calendar = @ \cup {create_event(st.next_id, events[i].date,
                                                       events[i].start, events[i].end,
                                                       events[i].title)},
                                !.next_id = @ + 1],
                     create_fail)

create_weekly_events(cal, next_id, schedule, create_fail) ==
    create_loop(schedule, 1,
                [calendar |-> cal, next_id |-> next_id, attempts |-> 0, created_count |-> 0],
                create_fail)

\* ---------------------------------------------------- schedule events
\* a loop that logs a failed insert and goes on with the next event
RECURSIVE store_loop_swallow(_, _, _, _)
store_loop_swallow(events, i, st, fail_at) ==
    IF i > Len(events) THEN st
    ELSE IF i = fail_at THEN store_loop_swallow(events, i + 1, st, fail_at)
    ELSE store_loop_swallow(events, i + 1,
                            [st EXCEPT !.rows = Append(@, [id |-> Len(@) + 1,
                                                           date |-> events[i].date,
                                                           start_time |-> events[i].start,
                                                           end_time |-> events[i].end,
                                                           title |-> events[i].title,
                                                           category |-> events[i].category,
                                                           status |-> "planned"]),
                                       !.count = @ + 1],
                            fail_at)

\* the fail_at-th insert raises (0: none does)
RECURSIVE store_loop(_, _, _, _)
store_loop(events, i, st, fail_at) ==
    IF i > Len(events) THEN st
    ELSE IF i = fail_at THEN [st EXCEPT !.raised = TRUE]
    ELSE store_loop(events, i + 1,
                    [st EXCEPT !.rows = Append(@, [id |-> Len(@) + 1,
                                                   date |-> events[i].date,
                                                   start_time |-> events[i].start,
                                                   end_time |-> events[i].end,
                                                   title |-> events[i].title,
                                                   category |-> events[i].category,
                                                   status |-> "planned"]),
                               !.count = @ + 1],
                    fail_at)

store_schedule_events_first_only(rows, events, fail_at) ==
    store_loop(SubSeq(events, 1, 1), 1, [rows |-> rows, count |-> 0, raised |-> FALSE],
               fail_at)

store_schedule_events(rows, events, fail_at) ==
    store_loop(events, 1, [rows |-> rows, count |-> 0, raised |-> FALSE], fail_at)

\* ------------------------------------------------------ plan approval
\* How the collaborators answer during one approval: whether the service
\* is built, whether the listing succeeds and in which order it comes,
\* which delete call raises, which create calls raise, which insert raises.
ApproveOracles(listing, n) ==
    LET canon == CHOOSE it \in Orderings(listing) : TRUE
        ok == [svc_ok |-> TRUE, list_ok |-> TRUE, items |-> canon, del_fail |-> 0,
               create_fail |-> {}, ins_fail |-> 0]
        n_plato == Cardinality({e \in listing : is_plato_event(e)})
    IN  {[ok EXCEPT !.svc_ok = FALSE], [ok EXCEPT !.list_ok = FALSE]}
        \cup {[ok EXCEPT !.items = it, !.del_fail = k] :
                 it \in Orderings(listing), k \in 1..n_plato}
        \cup {[ok EXCEPT !.create_fail = cf, !.ins_fail = k] :
                 cf \in SUBSET (1..n), k \in 0..n}

\* every collaborator call of the approval succeeds
HealthyOracles(listing, n) ==
    {[svc_ok |-> TRUE, list_ok |-> TRUE, items |-> CHOOSE it \in Orderings(listing) : TRUE,
      del_fail |-> 0, create_fail |-> {}, ins_fail |-> 0]}

approve_nothing_pending_raises ==
    [Blank EXCEPT !.op = "approve", !.result = "error", !.step = "service"]

\* process_approve_plan when get_pending_plan() is None: the early return
approve_nothing_pending ==
    [Blank EXCEPT !.op = "approve", !.result = "no_pending"]

\* the body of process_approve_plan once a pending plan was found
approve(events, o) ==
    LET first_date == strptime(events[1].date)
        week_start == first_date - weekday(first_date)
        base == [Blank EXCEPT !.op = "approve", !.events = events,
                              !.week_start = week_start]
        same == [pending_plan |-> pending_plan, calendar |-> calendar,
                 next_cal_id |-> next_cal_id, schedule_events |-> schedule_events,
                 last |-> base]
    IN
    IF ~o.svc_ok
    THEN [same EXCEPT !.last.result = "error", !.last.step = "service"]
    ELSE IF ~o.list_ok
    THEN [same EXCEPT !.last.result = "error", !.last.step = "list",
                      !.last.list_calls = 1]
    ELSE
    LET c == clear_plato_events(calendar, o.items, o.del_fail)
        after_clear == [base EXCEPT !.list_calls = 1,
                                    !.listed = {o.items[i] : i \in 1..Len(o.items)},
                                    !.delete_attempts = c.delete_attempts,
                                    !.removed = c.removed,
                                    !.cleared = c.deleted]
    IN
    IF c.raised
    THEN [same EXCEPT !.calendar = c.calendar,
                      !.last = [after_clear EXCEPT !.result = "error", !.step = "clear"]]
    ELSE
    LET w == create_weekly_events(c.calendar, next_cal_id, events, o.create_fail)
        s == store_schedule_events(schedule_events, events, o.ins_fail)
        after_store == [after_clear EXCEPT !.create_attempts = w.attempts,
                                           !.created = w.created_count,
                                           !.create_failed = o.create_fail,
                                           !.stored = s.count]
    IN
    IF s.raised
    THEN [pending_plan |-> pending_plan, calendar |-> w.calendar,
          next_cal_id |-> w.next_id, schedule_events |-> s.rows,
          last |-> [after_store EXCEPT !.result = "error", !.step = "store"]]
    ELSE [pending_plan |-> clear_pending_plan(pending_plan), calendar |-> w.calendar,
          next_cal_id |-> w.next_id, schedule_events |-> s.rows,
          last |-> [after_store EXCEPT !.result = "approved", !.step = "done"]]

\* healthy: no collaborator fails during the approval (else each may fail);
\* max_rows caps the schedule_events table
approve_plan(healthy, max_rows) ==
    LET pending == get_pending_plan(pending_plan) IN
    IF falsy(pending)
    THEN /\ last' = approve_nothing_pending
         /\ UNCHANGED <<pending_plan, calendar, next_cal_id, schedule_events, faulted, lift_vars, nudge_vars, io_vars>>
    ELSE LET events == pending.value
             first_date == strptime(events[1].date)
             week_start == first_date - weekday(first_date)
         IN  /\ next_cal_id + Len(events) - 1 <= MaxCalId
             /\ Len(schedule_events) + Len(events) <= max_rows
             /\ \E o \in IF healthy
                        THEN HealthyOracles(week_listing(calendar, week_start), Len(events))
                        ELSE ApproveOracles(week_listing(calendar, week_start), Len(events)) :
                    LET r == approve(events, o)
                    IN  /\ pending_plan' = r.pending_plan
                        /\ calendar' = r.calendar
                        /\ next_cal_id' = r.next_cal_id
                        /\ schedule_events' = r.schedule_events
                        /\ last' = r.last
                        /\ faulted' = (faulted \/ r.last.result = "error"
                                                \/ o.create_fail # {})
                        /\ UNCHANGED <<lift_vars, nudge_vars, io_vars>>

process_approve_plan == approve_plan(FALSE, MaxRows)

\* the same handler while the calendar service and the store answer every call
process_approve_plan_up == approve_plan(TRUE, MaxDayRows)

\* ---------------------------------------------------- main lift config
\* weights are tenths of a kilogram; a nullable number is <<>> or <<v>>
MAIN_LIFTS ==
    [incline_bench |-> [name |-> <<"Incline", "Barbell", "Press">>, rep_range |-> <<6, 8>>,
                        increment |-> 25],
     barbell_row |-> [name |-> <<"Barbell", "Row">>, rep_range |-> <<6, 8>>, increment |-> 25],
     squat |-> [name |-> <<"Back", "Squat">>, rep_range |-> <<8, 10>>, increment |-> 25],
     ohp |-> [name |-> <<"Overhead", "Barbell", "Press">>, rep_range |-> <<6, 8>>,
              increment |-> 25]]

\* the dict LIFT_ALIASES in insertion order
LIFT_ALIASES ==
    << <<(<<"incline", "bench">>), "incline_bench">>,
       <<(<<"incline", "barbell">>), "incline_bench">>,
       <<(<<"incline", "press">>), "incline_bench">>,
       <<(<<"incline">>), "incline_bench">>,
       <<(<<"barbell", "row">>), "barbell_row">>,
       <<(<<"row">>), "barbell_row">>,
       <<(<<"bent", "over", "row">>), "barbell_row">>,
       <<(<<"squat">>), "squat">>,
       <<(<<"back", "squat">>), "squat">>,
       <<(<<"squats">>), "squat">>,
       <<(<<"ohp">>), "ohp">>,
       <<(<<"overhead", "press">>), "ohp">>,
       <<(<<"shoulder", "press">>), "ohp">>,
       <<(<<"military", "press">>), "ohp">>,
       <<(<<"overhead", "barbell", "press">>), "ohp">> >>

\* str.lower() of one word
lower_word(w) ==
    CASE w = "Back" -> "back" [] w = "Squat" -> "squat" [] w = "Pause" -> "pause"
      [] w = "Leg" -> "leg" [] w = "Press" -> "press" [] w = "Incline" -> "incline"
      [] w = "Barbell" -> "barbell" [] w = "Row" -> "row" [] w = "Overhead" -> "overhead"
      [] w = "OHP" -> "ohp" [] OTHER -> w

lower(text) == [i \in 1..Len(text) |-> lower_word(text[i])]

\* Python's `a in b` on strings, word by word
is_substring(a, b) ==
    \E k \in 0..(Len(b) - Len(a)) : \A i \in 1..Len(a) : b[k + i] = a[i]

\* SQL ILIKE '%pattern%'
ilike(text, pattern) == is_substring(lower(pattern), lower(text))

RECURSIVE first_fuzzy_alias(_, _)
first_fuzzy_alias(name_lower, i) ==
    IF i > Len(LIFT_ALIASES) THEN <<>>
    ELSE IF is_substring(LIFT_ALIASES[i][1], name_lower)
            \/ is_substring(name_lower, LIFT_ALIASES[i][1])
    THEN <<LIFT_ALIASES[i][2]>>
    ELSE first_fuzzy_alias(name_lower, i + 1)

\* the lift key as <<key>>, or <<>> for None
_get_lift_key(exercise_name) ==
    LET name_lower == lower(exercise_name)
        exact == {i \in 1..Len(LIFT_ALIASES) : LIFT_ALIASES[i][1] = name_lower}
    IN  IF exact # {}
        THEN <<LIFT_ALIASES[CHOOSE i \in exact : TRUE][2]>>
        ELSE first_fuzzy_alias(name_lower, 1)

_is_main_lift(exercise_name) == _get_lift_key(exercise_name) # <<>>

\* _track_main_lift with a hit_target that looks at the reps alone
_track_main_lift_reps_only(rows, date, lift_key, weight, sets, reps) ==
    LET config == MAIN_LIFTS[lift_key]
        target_top == config.rep_range[2]
        hit_target == reps >= target_top
        next_weight == IF hit_target THEN <<weight + config.increment>> ELSE <<>>
    IN  Append(rows, [id |-> Len(rows) + 1, date |-> date, lift_name |-> lift_key,
                      weight_kg |-> weight, sets |-> sets, reps |-> reps,
                      target_reps |-> target_top, hit_target |-> hit_target,
                      next_weight_kg |-> next_weight, confirmed |-> FALSE])

\* the row _track_main_lift inserts
_track_main_lift(rows, date, lift_key, weight, sets, reps) ==
    LET config == MAIN_LIFTS[lift_key]
        target_top == config.rep_range[2]
        hit_target == reps >= target_top /\ sets >= 4
        next_weight == IF hit_target THEN <<weight + config.increment>> ELSE <<>>
    IN  Append(rows, [id |-> Len(rows) + 1, date |-> date, lift_name |-> lift_key,
                      weight_kg |-> weight, sets |-> sets, reps |-> reps,
                      target_reps |-> target_top, hit_target |-> hit_target,
                      next_weight_kg |-> next_weight, confirmed |-> FALSE])

\* ------------------------------------------------------- fitness inputs
LiftDays == << <<2026, 2, 2>>, <<2026, 2, 3>>, <<2026, 2, 4>> >>

LoggedExercises ==
    { [exercise |-> <<"Back", "Squat">>, sets |-> 4, reps |-> 10, weight_kg |-> 600],
      [exercise |-> <<"Back", "Squat">>, sets |-> 4, reps |-> 10, weight_kg |-> 625],
      [exercise |-> <<"Back", "Squat">>, sets |-> 4, reps |-> 8, weight_kg |-> 600],
      [exercise |-> <<"OHP">>, sets |-> 4, reps |-> 8, weight_kg |-> 400] }

SeedTemplates ==
    << [session_type |-> "Legs", exercise_order |-> 1, exercise_name |-> <<"Back", "Squat">>,
        sets |-> 4, is_main_lift |-> TRUE, current_weight_kg |-> 600],
       [session_type |-> "Legs", exercise_order |-> 2,
        exercise_name |-> <<"Pause", "back", "squat">>,
        sets |-> 3, is_main_lift |-> FALSE, current_weight_kg |-> 500],
       [session_type |-> "Legs", exercise_order |-> 3, exercise_name |-> <<"Leg", "Press">>,
        sets |-> 3, is_main_lift |-> FALSE, current_weight_kg |-> 1200] >>

BlankLift ==
    [op |-> "init", result |-> "none", lift_key |-> "none", entry |-> 0,
     new_weight |-> <<>>, cascade_raised |-> FALSE,
     range |-> <<>>, before |-> 0, block_id |-> 0]

\* ------------------------------------------------- training sessions
\* SESSION_TYPES.get(session_type.lower(), session_type)
normalize_session_type(session_type) ==
    CASE session_type \in {"push", "chest"} -> "Push"
      [] session_type \in {"legs", "leg"} -> "Legs"
      [] session_type \in {"upper", "upper hypertrophy"} -> "Upper Hypertrophy"
      [] session_type \in {"shoulders", "arms", "shoulders + arms", "shoulder"} ->
             "Shoulders + Arms"
      [] OTHER -> session_type

\* the loop of log_training_session over the logged exercises
RECURSIVE log_exercises(_, _, _, _, _)
log_exercises(exercises, i, st, session_id, date) ==
    IF i > Len(exercises) THEN st
    ELSE
    LET ex == exercises[i]
        is_main == _is_main_lift(ex.exercise)
        row == [id |-> Len(st.exercises) + 1, session_id |-> session_id,
                exercise_name |-> ex.exercise, sets |-> ex.sets, weight_kg |-> ex.weight_kg,
                is_main_lift |-> is_main]
        tracked == IF is_main /\ ex.weight_kg # 0 /\ ex.sets # 0 /\ ex.reps # 0
                   THEN _track_main_lift(st.progress, date, _get_lift_key(ex.exercise)[1],
                                         ex.weight_kg, ex.sets, ex.reps)
                   ELSE st.progress
    IN  log_exercises(exercises, i + 1,
                      [exercises |-> Append(st.exercises, row), progress |-> tracked],
                      session_id, date)

\* get_current_block(date): a block whose dates hold the date (limit 1, in
\* no stated order); None is <<>>
_get_current_block_id(blocks, date) ==
    LET hold == {i \in 1..Len(blocks) :
                    /\ strptime(blocks[i].start_date) <= strptime(date)
                    /\ strptime(date) <= strptime(blocks[i].end_date)}
    IN  IF hold = {} THEN {<<>>} ELSE {<<blocks[i].id>> : i \in hold}

log_session(logged) ==
    \E ex \in logged, d \in 1..today :
      \E block_id \in _get_current_block_id(training_blocks, LiftDays[d]) :
        LET session_id == Len(training_sessions) + 1
            r == log_exercises(<<ex>>, 1,
                               [exercises |-> training_exercises,
                                progress |-> main_lift_progress],
                               session_id, LiftDays[d])
        IN  /\ Len(training_sessions) < MaxSessions
            /\ Len(main_lift_progress) < MaxEntries
            /\ training_sessions' =
                   Append(training_sessions,
                          [id |-> session_id, date |-> LiftDays[d],
                           session_type |-> normalize_session_type("legs"),
                           completed |-> TRUE, block_id |-> block_id])
            /\ training_exercises' = r.exercises
            /\ main_lift_progress' = r.progress
            /\ last_lift' = [BlankLift EXCEPT !.op = "log_workout", !.result = "logged"]
            /\ UNCHANGED <<workout_templates, training_blocks, today, plan_vars, nudge_vars, io_vars>>

log_training_session == log_session(LoggedExercises)

\* performances of the four main lifts around the thresholds of sets and reps
TrackInputs ==
    {[exercise |-> name, sets |-> sets, reps |-> reps, weight_kg |-> 600] :
        name \in {<<"Incline", "Barbell", "Press">>, <<"Barbell", "Row">>,
                  <<"Back", "Squat">>, <<"OHP">>},
        sets \in {3, 4}, reps \in {7, 8, 9, 10}}

log_training_session_main_lift == log_session(TrackInputs)

\* ----------------------------------------------- block workout generation
WEEKLY_SCHEDULE ==
    << <<0, "Push">>, <<1, "Legs">>, <<3, "Upper Hypertrophy">>, <<5, "Shoulders + Arms">> >>

\* strftime("%Y-%m-%d") of a date ordinal (years 2025 to 2030)
strftime(ord) ==
    LET y == CHOOSE yy \in 2025..2030 :
                 DaysBeforeYear(yy) < ord /\ ord <= DaysBeforeYear(yy + 1)
        n == ord - DaysBeforeYear(y)
        m == CHOOSE mm \in 1..12 :
                 DaysBeforeMonth(y, mm) < n /\ n <= DaysBeforeMonth(y, mm) + DaysInMonth(y, mm)
    IN  <<y, m, n - DaysBeforeMonth(y, m)>>

\* get_all_templates()[session_type]: the rows of one split, in exercise order
templates_of(templates, session_type) ==
    SelectSeq(templates, LAMBDA t : t.session_type = session_type)

RECURSIVE insert_template_exercises(_, _, _, _)
insert_template_exercises(tmpls, i, exercises, session_id) ==
    IF i > Len(tmpls) THEN exercises
    ELSE insert_template_exercises(tmpls, i + 1,
             Append(exercises,
                    [id |-> Len(exercises) + 1, session_id |-> session_id,
                     exercise_name |-> tmpls[i].exercise_name, sets |-> tmpls[i].sets,
                     weight_kg |-> tmpls[i].current_weight_kg,
                     is_main_lift |-> tmpls[i].is_main_lift]),
             session_id)

\* the inner loop over WEEKLY_SCHEDULE for one date
RECURSIVE generate_day(_, _, _, _, _)
generate_day(current, k, st, templates, block_id) ==
    IF k > Len(WEEKLY_SCHEDULE) THEN st
    ELSE
    LET sched_day == WEEKLY_SCHEDULE[k][1]
        session_type == WEEKLY_SCHEDULE[k][2]
        tmpls == templates_of(templates, session_type)
    IN  IF weekday(current) = sched_day /\ tmpls # <<>>
        THEN LET session_id == Len(st.sessions) + 1
             IN  generate_day(current, k + 1,
                     [sessions |-> Append(st.sessions,
                                          [id |-> session_id, date |-> strftime(current),
                                           session_type |-> session_type,
                                           completed |-> FALSE,
                                           block_id |-> <<block_id>>]),
                      exercises |-> insert_template_exercises(tmpls, 1, st.exercises,
                                                              session_id),
                      created |-> st.created + 1],
                     templates, block_id)
        ELSE generate_day(current, k + 1, st, templates, block_id)

RECURSIVE generate_block_workouts_exclusive_end(_, _, _, _, _)
generate_block_workouts_exclusive_end(current, end, st, templates, block_id) ==
    IF current >= end THEN st
    ELSE LET inserted == generate_day(current, 1, st, templates, block_id)
         IN  IF Len(inserted.sessions) >= Len(st.sessions)
             THEN generate_block_workouts_exclusive_end(current + 1, end, inserted,
                                                        templates, block_id)
             ELSE inserted

\* the while loop of generate_block_workouts from current to end; the rows of
\* one date are inserted before the loop moves to the next date
RECURSIVE generate_block_workouts(_, _, _, _, _)
generate_block_workouts(current, end, st, templates, block_id) ==
    IF current > end THEN st
    ELSE LET inserted == generate_day(current, 1, st, templates, block_id)
         IN  IF Len(inserted.sessions) >= Len(st.sessions)
             THEN generate_block_workouts(current + 1, end, inserted, templates, block_id)
             ELSE inserted

do_generate_block_workouts ==
    \E a \in 1..Len(LiftDays), b \in 1..Len(LiftDays) :
        LET r == generate_block_workouts(strptime(LiftDays[a]), strptime(LiftDays[b]),
                                         [sessions |-> training_sessions,
                                          exercises |-> training_exercises,
                                          created |-> 0],
                                         workout_templates, "block")
        IN  /\ a <= b
            /\ Len(r.sessions) <= MaxSessions
            /\ training_sessions' = r.sessions
            /\ training_exercises' = r.exercises
            /\ last_lift' = [BlankLift EXCEPT !.op = "generate", !.result = "generated",
                                              !.entry = r.created]
            /\ UNCHANGED <<main_lift_progress, workout_templates, training_blocks, today,
                           plan_vars, nudge_vars, io_vars>>

\* ------------------------------------------------------ block planning
BlockYears == {2026, 2027, 2028}

month_name ==
    << "January", "February", "March", "April", "May", "June", "July", "August",
       "September", "October", "November", "December" >>

\* PHASE_TIMELINE.get((year, month), "bulk")
get_phase_for_month(year, month) ==
    IF <<year, month>> \in {<<2026, 6>>, <<2026, 11>>, <<2027, 6>>} THEN "mini_cut"
    ELSE IF year = 2028 /\ month <= 6 THEN "final_cut"
    ELSE "bulk"

\* PHASE_NUTRITION.get(phase, PHASE_NUTRITION["bulk"])
get_nutrition_for_phase(phase) ==
    CASE phase = "mini_cut" -> [calories |-> 2450, protein |-> 180]
      [] phase = "final_cut" -> [calories |-> 2300, protein |-> 185]
      [] OTHER -> [calories |-> 3000, protein |-> 170]

calculate_block_dates_always_advance(year, month) ==
    LET first_day == strptime(<<year, month, 1>>)
        last_day == strptime(<<year, month, DaysInMonth(year, month)>>)
    IN  <<strftime(first_day + (7 - weekday(first_day))),
          strftime(last_day + ((6 - weekday(last_day)) % 7))>>

calculate_block_dates(year, month) ==
    LET first_day == strptime(<<year, month, 1>>)
        days_until_monday == (7 - weekday(first_day)) % 7
        block_start == IF weekday(first_day) = 0 THEN first_day
                       ELSE first_day + days_until_monday
        last_day_num == DaysInMonth(year, month)
        last_day == strptime(<<year, month, last_day_num>>)
        days_until_sunday == (6 - weekday(last_day)) % 7
        block_end == last_day + days_until_sunday
    IN  <<strftime(block_start), strftime(block_end)>>

plan_next_block_extra_week(year, month) ==
    LET dates == calculate_block_dates(year, month)
        phase == get_phase_for_month(year, month)
        nutrition == get_nutrition_for_phase(phase)
    IN  [name |-> <<month_name[month], year>>,
         start_date |-> dates[1], end_date |-> strftime(strptime(dates[2]) + 7),
         phase |-> phase,
         calorie_target |-> nutrition.calories, protein_target |-> nutrition.protein]

plan_next_block(year, month) ==
    LET dates == calculate_block_dates(year, month)
        phase == get_phase_for_month(year, month)
        nutrition == get_nutrition_for_phase(phase)
    IN  [name |-> <<month_name[month], year>>,
         start_date |-> dates[1], end_date |-> dates[2], phase |-> phase,
         calorie_target |-> nutrition.calories, protein_target |-> nutrition.protein]

\* insert into training_blocks; the row comes back with its id
create_training_block(blocks, plan) ==
    Append(blocks, [id |-> Len(blocks) + 1, name |-> plan.name,
                    start_date |-> plan.start_date, end_date |-> plan.end_date,
                    phase |-> plan.phase, calorie_target |-> plan.calorie_target,
                    protein_target |-> plan.protein_target])

\* raises: the insert of the block raises and the handler reports the error
process_plan_next_block ==
    \E year \in BlockYears, month \in 1..12, raises \in BOOLEAN :
      \E plan \in {plan_next_block(year, month)} :
        /\ Len(training_blocks) < MaxBlocks
        /\ UNCHANGED <<main_lift_progress, workout_templates, today, plan_vars, nudge_vars, io_vars>>
        /\ IF raises
           THEN /\ last_lift' = [BlankLift EXCEPT !.op = "plan_next_block",
                                                  !.result = "error"]
                /\ UNCHANGED <<training_blocks, training_sessions, training_exercises>>
           ELSE \E blocks \in {create_training_block(training_blocks, plan)} :
                \E r \in {generate_block_workouts(
                               strptime(plan.start_date), strptime(plan.end_date),
                               [sessions |-> training_sessions,
                                exercises |-> training_exercises, created |-> 0],
                               workout_templates, Len(blocks))} :
                    /\ training_blocks' = blocks
                    /\ training_sessions' = r.sessions
                    /\ training_exercises' = r.exercises
                    /\ last_lift' = [BlankLift EXCEPT !.op = "plan_next_block",
                                                      !.result = "planned",
                                                      !.entry = r.created]

\* ------------------------------------------------------ block creation
\* the dates a created block may start and end on: two whole weeks
RangeDays == {strptime(<<2026, 2, 2>>) + k : k \in 0..13}

AllTemplates ==
    SeedTemplates \o
    << [session_type |-> "Push", exercise_order |-> 1,
        exercise_name |-> <<"Incline", "Barbell", "Press">>,
        sets |-> 4, is_main_lift |-> TRUE, current_weight_kg |-> 500],
       [session_type |-> "Shoulders + Arms", exercise_order |-> 1,
        exercise_name |-> <<"Overhead", "Barbell", "Press">>,
        sets |-> 4, is_main_lift |-> TRUE, current_weight_kg |-> 400],
       [session_type |-> "Upper Hypertrophy", exercise_order |-> 1,
        exercise_name |-> <<"Barbell", "Row">>,
        sets |-> 4, is_main_lift |-> TRUE, current_weight_kg |-> 550] >>

\* the workout_templates table with the rows of any set of splits
TemplateTables ==
    {SelectSeq(AllTemplates, LAMBDA t : t.session_type \in S) :
        S \in SUBSET {AllTemplates[i].session_type : i \in 1..Len(AllTemplates)}}

\* a session logged before the block is created
LoggedBefore ==
    [id |-> 1, date |-> <<2026, 2, 3>>, session_type |-> "Legs", completed |-> TRUE,
     block_id |-> <<>>]

\* raises: the insert of the block raises and the handler reports the error
process_create_block ==
    \E start_date \in RangeDays, end_date \in RangeDays, raises \in BOOLEAN :
        /\ training_blocks = <<>>
        /\ UNCHANGED <<main_lift_progress, workout_templates, today, plan_vars, nudge_vars, io_vars>>
        /\ IF raises
           THEN /\ last_lift' = [BlankLift EXCEPT !.op = "create_block", !.result = "error"]
                /\ UNCHANGED <<training_blocks, training_sessions, training_exercises>>
           ELSE \E blocks \in {create_training_block(
                                   training_blocks,
                                   [name |-> <<"Custom">>, start_date |-> strftime(start_date),
                                    end_date |-> strftime(end_date), phase |-> "bulk",
                                    calorie_target |-> <<>>, protein_target |-> <<>>])} :
                \E r \in {generate_block_workouts(
                               strptime(strftime(start_date)), strptime(strftime(end_date)),
                               [sessions |-> training_sessions,
                                exercises |-> training_exercises, created |-> 0],
                               workout_templates, Len(blocks))} :
                    /\ training_blocks' = blocks
                    /\ training_sessions' = r.sessions
                    /\ training_exercises' = r.exercises
                    /\ last_lift' = [BlankLift EXCEPT !.op = "create_block",
                                                      !.result = "created",
                                                      !.entry = r.created,
                                                      !.range = <<start_date, end_date>>,
                                                      !.before = Len(training_sessions),
                                                      !.block_id = Len(blocks)]

\* ------------------------------------------------ progression confirmation
update_template_weight_exact_name(templates, exercise_name, new_weight) ==
    [i \in 1..Len(templates) |->
        IF templates[i].exercise_name = exercise_name
        THEN [templates[i] EXCEPT !.current_weight_kg = new_weight]
        ELSE templates[i]]

update_template_weight(templates, exercise_name, new_weight) ==
    [i \in 1..Len(templates) |->
        IF ilike(templates[i].exercise_name, exercise_name)
        THEN [templates[i] EXCEPT !.current_weight_kg = new_weight]
        ELSE templates[i]]

\* select("id").eq("completed", False).gte("date", today): session ids, in id order
future_sessions_all(sessions, now) ==
    [i \in 1..Len(sessions) |-> sessions[i].id]

future_sessions(sessions, now) ==
    LET keep == SelectSeq(sessions,
                          LAMBDA x : ~x.completed /\ strptime(x.date) >= strptime(now))
    IN  [i \in 1..Len(keep) |-> keep[i].id]

\* update({"weight_kg": w}).eq("session_id", id).ilike("exercise_name", "%name%")
update_session_exercises(exercises, session_id, lift_name, new_weight) ==
    [i \in 1..Len(exercises) |->
        IF exercises[i].session_id = session_id /\ ilike(exercises[i].exercise_name, lift_name)
        THEN [exercises[i] EXCEPT !.weight_kg = new_weight]
        ELSE exercises[i]]

\* the guarded loop over the future sessions; the fail_at-th store call of
\* the try block raises (call 1 is the select; 0: none raises)
RECURSIVE cascade_loop(_, _, _, _, _, _)
cascade_loop(ids, i, exercises, lift_name, new_weight, fail_at) ==
    IF i > Len(ids) THEN [exercises |-> exercises, raised |-> FALSE]
    ELSE IF i + 1 = fail_at THEN [exercises |-> exercises, raised |-> TRUE]
    ELSE cascade_loop(ids, i + 1,
                      update_session_exercises(exercises, ids[i], lift_name, new_weight),
                      lift_name, new_weight, fail_at)

\* the select of confirm_progression: unconfirmed hit-target entries of the
\* lift, most recent date first, limit 1 (entries of one date tie)
pending_progressions(rows, lift_key) ==
    LET cand == {i \in 1..Len(rows) :
                    rows[i].lift_name = lift_key /\ rows[i].hit_target /\ ~rows[i].confirmed}
    IN  {i \in cand : \A j \in cand : strptime(rows[j].date) <= strptime(rows[i].date)}

\* an update of confirmed that selects by the lift instead of the id
mark_confirmed_by_lift(rows, e) ==
    [i \in 1..Len(rows) |->
        IF rows[i].lift_name = rows[e].lift_name
        THEN [rows[i] EXCEPT !.confirmed = TRUE] ELSE rows[i]]

\* update({"confirmed": True}).eq("id", entry["id"])
mark_confirmed(rows, e) ==
    [i \in 1..Len(rows) |->
        IF rows[i].id = rows[e].id
        THEN [rows[i] EXCEPT !.confirmed = TRUE] ELSE rows[i]]

LiftKeyInputs == {"squat", "ohp", "deadlift"}

confirm_progression ==
    \E lift_key \in LiftKeyInputs :
        LET found == pending_progressions(main_lift_progress, lift_key) IN
        IF found = {}
        THEN /\ last_lift' = [BlankLift EXCEPT !.op = "confirm", !.result = "no_pending",
                                               !.lift_key = lift_key]
             /\ UNCHANGED <<main_lift_progress, workout_templates, training_sessions,
                            training_exercises, training_blocks, today, plan_vars, nudge_vars, io_vars>>
        ELSE \E e \in found :
             LET entry == main_lift_progress[e]
                 new_weight == entry.next_weight_kg[1]
                 lift_name == MAIN_LIFTS[lift_key].name
                 ids == future_sessions(training_sessions, LiftDays[today])
             IN  \E fail_at \in 0..(Len(ids) + 1) :
                 LET c == IF fail_at = 1
                          THEN [exercises |-> training_exercises, raised |-> TRUE]
                          ELSE cascade_loop(ids, 1, training_exercises, lift_name,
                                            new_weight, fail_at)
                 IN  /\ main_lift_progress' = mark_confirmed(main_lift_progress, e)
                     /\ workout_templates' =
                            update_template_weight(workout_templates, lift_name, new_weight)
                     /\ training_exercises' = c.exercises
                     /\ last_lift' = [BlankLift EXCEPT !.op = "confirm",
                                                       !.result = "confirmed",
                                                       !.lift_key = lift_key,
                                                       !.entry = e,
                                                       !.new_weight = <<new_weight>>,
                                                       !.cascade_raised = c.raised]
                     /\ UNCHANGED <<training_sessions, training_blocks, today, plan_vars, nudge_vars, io_vars>>

\* midnight passes
next_day ==
    /\ today < Len(LiftDays)
    /\ today' = today + 1
    /\ last_lift' = [BlankLift EXCEPT !.op = "next_day"]
    /\ UNCHANGED <<main_lift_progress, workout_templates, training_sessions,
                   training_exercises, training_blocks, plan_vars, nudge_vars, io_vars>>

\* -------------------------------------------------------- audrey time
\* "HH:MM" strings compare as their minutes do
hhmm(t) == t[1] * 60 + t[2]

FromTimes == { <<18, 0>>, <<19, 50>> }

\* event['summary'].replace('[Plato] ', ''): each "[Plato]" a space follows goes
RECURSIVE replace_prefix(_, _)
replace_prefix(summary, i) ==
    IF i > Len(summary) THEN <<>>
    ELSE IF summary[i] = PLATO /\ i < Len(summary) THEN replace_prefix(summary, i + 1)
    ELSE <<summary[i]>> \o replace_prefix(summary, i + 1)

\* the listing of cancel_evening_events: timeMin is date T from_time,
\* timeMax is date T 23:59
evening_listing(cal, date_str, from_time) ==
    events_list(cal, instant(strptime(date_str), from_time),
                instant(strptime(date_str), <<23, 59>>), PLATO)

\* the loop of cancel_evening_events over the listed items; the fail_at-th
\* delete call raises (0: none does)
RECURSIVE cancel_loop(_, _, _, _)
cancel_loop(items, i, st, fail_at) ==
    IF i > Len(items) THEN st
    ELSE IF is_plato_event(items[i])
    THEN IF st.delete_attempts + 1 = fail_at
         THEN [st EXCEPT !.delete_attempts = @ + 1, !.raised = TRUE]
         ELSE cancel_loop(items, i + 1,
                          [st EXCEPT !.calendar = @ \ {items[i]},
                                     !.delete_attempts = @ + 1,
                                     !.removed = @ \cup {items[i]},
                                     !.cancelled =
                                         Append(@, [title |-> replace_prefix(items[i].summary, 1),
                                                    start |-> items[i].start,
                                                    end |-> items[i].end])],
                          fail_at)
    ELSE cancel_loop(items, i + 1, st, fail_at)

cancel_evening_events(cal, items, fail_at) ==
    cancel_loop(items, 1,
                [calendar |-> cal, delete_attempts |-> 0, removed |-> {},
                 cancelled |-> <<>>, raised |-> FALSE],
                fail_at)

\* select("*").eq("date", d).eq("status", "planned").gte("start_time", from_time)
evening_rows(rows, date_str, from_time) ==
    SelectSeq(rows, LAMBDA r : /\ r.date = date_str
                               /\ r.status = "planned"
                               /\ hhmm(r.start_time) >= hhmm(from_time))

\* the update loop of mark_evening_audrey; the fail_at-th store call raises
\* (call 1 is the select; 0: none raises)
RECURSIVE mark_loop(_, _, _, _)
mark_loop(found, i, st, fail_at) ==
    IF i > Len(found) THEN st
    ELSE IF i + 1 = fail_at THEN [st EXCEPT !.raised = TRUE]
    ELSE mark_loop(found, i + 1,
                   [st EXCEPT !.rows = [k \in 1..Len(@) |->
                                           IF @[k].id = found[i].id
                                           THEN [@[k] EXCEPT !.status = "audrey_time"]
                                           ELSE @[k]],
                              !.affected = @ \cup {found[i].id}],
                   fail_at)

mark_evening_audrey(rows, date_str, from_time, fail_at) ==
    IF fail_at = 1 THEN [rows |-> rows, affected |-> {}, raised |-> TRUE]
    ELSE mark_loop(evening_rows(rows, date_str, from_time), 1,
                   [rows |-> rows, affected |-> {}, raised |-> FALSE], fail_at)

\* How the collaborators answer during one audrey_time action.
AudreyOracles(listing, m) ==
    LET canon == CHOOSE it \in Orderings(listing) : TRUE
        ok == [svc_ok |-> TRUE, list_ok |-> TRUE, items |-> canon, del_fail |-> 0,
               mark_fail |-> 0]
        n_plato == Cardinality({e \in listing : is_plato_event(e)})
    IN  {[ok EXCEPT !.svc_ok = FALSE], [ok EXCEPT !.list_ok = FALSE]}
        \cup {[ok EXCEPT !.items = it, !.del_fail = k] :
                 it \in Orderings(listing), k \in 0..n_plato}
        \cup {[ok EXCEPT !.mark_fail = k] : k \in 0..(m + 1)}

\* the body of process_audrey_time
audrey(date_str, from_time, o) ==
    LET base == [Blank EXCEPT !.op = "audrey_time", !.date = date_str,
                              !.from_time = from_time]
        same == [calendar |-> calendar, schedule_events |-> schedule_events,
                 last |-> base]
    IN
    IF ~o.svc_ok
    THEN [same EXCEPT !.last.result = "error", !.last.step = "service"]
    ELSE IF ~o.list_ok
    THEN [same EXCEPT !.last.result = "error", !.last.step = "list",
                      !.last.list_calls = 1]
    ELSE
    LET c == cancel_evening_events(calendar, o.items, o.del_fail)
        after_cancel == [base EXCEPT !.list_calls = 1,
                                     !.listed = {o.items[i] : i \in 1..Len(o.items)},
                                     !.delete_attempts = c.delete_attempts,
                                     !.removed = c.removed]
    IN
    IF c.raised
    THEN [same EXCEPT !.calendar = c.calendar,
                      !.last = [after_cancel EXCEPT !.result = "error", !.step = "cancel"]]
    ELSE
    LET a == mark_evening_audrey(schedule_events, date_str, from_time, o.mark_fail)
        after_mark == [after_cancel EXCEPT !.cancelled = c.cancelled,
                                           !.affected = a.affected]
    IN
    IF a.raised
    THEN [calendar |-> c.calendar, schedule_events |-> a.rows,
          last |-> [after_mark EXCEPT !.result = "error", !.step = "mark"]]
    ELSE [calendar |-> c.calendar, schedule_events |-> a.rows,
          last |-> [after_mark EXCEPT
                       !.result = IF c.cancelled = <<>> /\ a.affected = {}
                                  THEN "nothing" ELSE "activated",
                       !.step = "done"]]

process_audrey_time ==
    \E from_time \in FromTimes :
        LET date_str == LiftDays[today]
            listing == evening_listing(calendar, date_str, from_time)
            m == Len(evening_rows(schedule_events, date_str, from_time))
        IN  \E o \in AudreyOracles(listing, m) :
                LET r == audrey(date_str, from_time, o)
                IN  /\ calendar' = r.calendar
                    /\ schedule_events' = r.schedule_events
                    /\ last' = r.last
                    /\ faulted' = (faulted \/ r.last.result = "error")
                    /\ UNCHANGED <<pending_plan, next_cal_id, lift_vars, nudge_vars, io_vars>>

\* ----------------------------------------------------------- check-in
CheckInStatuses == {"completed", "partial", "skipped"}

\* datetime.now().strftime("%H:%M") at the moment of a check-in
ClockTimes == { <<20, 30>>, <<21, 0>>, <<22, 30>> }

\* select("*").eq("date", d).order("start_time"): the orders the store may
\* return the rows in (rows of one start_time tie)
get_planned_events_for_date(rows, date_str) ==
    LET ids == {i \in 1..Len(rows) : rows[i].date = date_str}
    IN  {[k \in 1..Cardinality(ids) |-> rows[f[k]]] :
            f \in {g \in Orderings(ids) :
                      \A a, b \in 1..Cardinality(ids) :
                          a < b => hhmm(rows[g[a]].start_time) <= hhmm(rows[g[b]].start_time)}}

update_schedule_event_forward_only(rows, event_id, status) ==
    [i \in 1..Len(rows) |->
        IF rows[i].id = event_id /\ rows[i].status = "planned"
        THEN [rows[i] EXCEPT !.status = status] ELSE rows[i]]

\* update(updates).eq("id", event_id)
update_schedule_event(rows, event_id, status) ==
    [i \in 1..Len(rows) |->
        IF rows[i].id = event_id THEN [rows[i] EXCEPT !.status = status] ELSE rows[i]]

\* the status a row holds before a check-in ("none": no such row)
status_of(rows, event_id) ==
    IF \E i \in 1..Len(rows) : rows[i].id = event_id
    THEN rows[CHOOSE i \in 1..Len(rows) : rows[i].id = event_id].status
    ELSE "none"

\* e["end_time"] <= now on strings, now being "HH:MM".  The store hands a
\* time column back as "HH:MM" or as "HH:MM:SS" (seconds); a string that
\* extends now by ":SS" is greater than now.
end_time_le(end_time, seconds, now) ==
    IF seconds THEN hhmm(end_time) < hhmm(now) ELSE hhmm(end_time) <= hhmm(now)

RECURSIVE recent_loop_any_planned(_, _, _, _, _)
recent_loop_any_planned(events, i, recent, now, seconds) ==
    IF i > Len(events) THEN recent
    ELSE IF events[i].status = "planned"
    THEN recent_loop_any_planned(events, i + 1, events[i].id, now, seconds)
    ELSE recent_loop_any_planned(events, i + 1, recent, now, seconds)

\* the loop of process_check_in: the last event that has ended and is planned
RECURSIVE recent_loop(_, _, _, _, _)
recent_loop(events, i, recent, now, seconds) ==
    IF i > Len(events) THEN recent
    ELSE IF end_time_le(events[i].end_time, seconds, now) /\ events[i].status = "planned"
    THEN recent_loop(events, i + 1, events[i].id, now, seconds)
    ELSE recent_loop(events, i + 1, recent, now, seconds)

\* event_id 0: the action carries no event id
check_in(times) ==
    /\ UNCHANGED <<pending_plan, calendar, next_cal_id, lift_vars, nudge_vars, io_vars>>
    /\ \/ \* a store call raises: the handler reports the error
          /\ faulted' = TRUE
          /\ last' = [Blank EXCEPT !.op = "check_in", !.result = "error"]
          /\ UNCHANGED schedule_events
       \/ \E listings \in {get_planned_events_for_date(schedule_events, LiftDays[today])} :
          \E event_id \in 0..MaxDayRows, status \in CheckInStatuses :
              LET base == [Blank EXCEPT !.op = "check_in", !.event_id = event_id,
                                        !.status = status, !.date = LiftDays[today]]
              IN
              /\ UNCHANGED faulted
              /\ IF event_id # 0
                 THEN /\ schedule_events' =
                             update_schedule_event(schedule_events, event_id, status)
                      /\ last' = [base EXCEPT !.result = "checked_in", !.target = event_id,
                                              !.prev_status =
                                                  status_of(schedule_events, event_id)]
                 ELSE \E now \in times :
                      \E recent \in {recent_loop(events, 1, 0, now, seconds) :
                                        seconds \in BOOLEAN, events \in listings} :
                              IF recent # 0
                              THEN /\ schedule_events' =
                                          update_schedule_event(schedule_events, recent,
                                                                status)
                                   /\ last' = [base EXCEPT !.result = "checked_in",
                                                           !.now = now, !.target = recent,
                                                           !.prev_status = "planned"]
                              ELSE /\ UNCHANGED schedule_events
                                   /\ last' = [base EXCEPT !.result = "nothing",
                                                           !.now = now]

process_check_in == check_in(ClockTimes)

\* ---------------------------------------------------- weekly adherence
\* round(num / den, 1) in tenths, halves to the even neighbour
round_1(num, den) ==
    LET q == (10 * num) \div den
        r == (10 * num) % den
    IN  IF 2 * r < den THEN q
        ELSE IF 2 * r > den THEN q + 1
        ELSE IF q % 2 = 0 THEN q ELSE q + 1

adherence_pct_unweighted(completed, partial, total) ==
    IF total > 0 THEN round_1((completed + partial) * 100, total) ELSE 0

\* round((completed + partial * 0.5) / total * 100, 1), in tenths of a percent
adherence_pct(completed, partial, total) ==
    IF total > 0 THEN round_1((2 * completed + partial) * 100, 2 * total) ELSE 0

\* select("*").gte("date", week_start_str).lt("date", week_end)
week_rows(rows, week_start_str) ==
    SelectSeq(rows, LAMBDA r : /\ strptime(r.date) >= strptime(week_start_str)
                               /\ strptime(r.date) < strptime(week_start_str) + 7)

get_weekly_adherence(rows, week_start_str) ==
    LET data == week_rows(rows, week_start_str)
        n(status) == Cardinality({i \in 1..Len(data) : data[i].status = status})
        cats == {data[i].category : i \in 1..Len(data)}
    IN  [total |-> Len(data),
         completed |-> n("completed"), partial |-> n("partial"), skipped |-> n("skipped"),
         audrey_time |-> n("audrey_time"), rescheduled |-> n("rescheduled"),
         planned |-> n("planned"),
         by_category |->
             [c \in cats |->
                 [completed |-> Cardinality({i \in 1..Len(data) :
                                    data[i].category = c /\ data[i].status = "completed"}),
                  total |-> Cardinality({i \in 1..Len(data) : data[i].category = c})]],
         adherence_pct |-> adherence_pct(n("completed"), n("partial"), Len(data))]

\* the status report computes the adherence of the current week
weekly_adherence ==
    LET today_dt == strptime(LiftDays[today])
        week_start == today_dt - weekday(today_dt)
    IN  /\ last' = [Blank EXCEPT !.op = "adherence", !.week_start = week_start,
                                 !.stats = get_weekly_adherence(schedule_events,
                                                                strftime(week_start))]
        /\ UNCHANGED <<pending_plan, calendar, next_cal_id, schedule_events, faulted,
                       lift_vars, nudge_vars, io_vars>>

\* rows a week of approvals and check-ins leaves in the table
WeekStatuses == {"planned", "completed", "partial", "skipped"}

WeekRows(max_len) ==
    UNION {{[i \in 1..n |->
                [id |-> i, date |-> f[i][1].date, start_time |-> f[i][1].start,
                 end_time |-> f[i][1].end, title |-> f[i][1].title,
                 category |-> f[i][1].category, status |-> f[i][2]]] :
               f \in [1..n -> ProposedEvents \X WeekStatuses]} : n \in 0..max_len}

\* ------------------------------------------------------ weekly template
\* strftime("%A")
day_names ==
    << "Monday", "Tuesday", "Wednesday", "Thursday", "Friday", "Saturday", "Sunday" >>

\* the Mondays from 2026-01-05 on
TemplateWeeks == {strptime(<<2026, 1, 5>>) + 7 * k : k \in 0..MaxWeek}

office_blocks ==
    << [start |-> <<7, 30>>, end |-> <<8, 0>>, type |-> "commute_prep",
        label |-> "Get ready, lift to Luas"],
       [start |-> <<8, 0>>, end |-> <<9, 0>>, type |-> "commute", label |-> "Luas to Citco"],
       [start |-> <<9, 0>>, end |-> <<18, 0>>, type |-> "work", label |-> "Citco (Office)"],
       [start |-> <<18, 0>>, end |-> <<19, 30>>, type |-> "commute",
        label |-> "Walk, Luas, walk home"],
       [start |-> <<19, 30>>, end |-> <<23, 0>>, type |-> "free",
        label |-> "Evening block (3.5 hrs)"] >>

wfh_gym_blocks ==
    << [start |-> <<7, 30>>, end |-> <<9, 0>>, type |-> "free",
        label |-> "Morning block (1.5 hrs)"],
       [start |-> <<9, 0>>, end |-> <<18, 0>>, type |-> "work", label |-> "Citco (WFH)"],
       [start |-> <<18, 0>>, end |-> <<18, 15>>, type |-> "commute", label |-> "Travel to gym"],
       [start |-> <<18, 15>>, end |-> <<19, 20>>, type |-> "fixed", label |-> "Gym session"],
       [start |-> <<19, 20>>, end |-> <<19, 40>>, type |-> "commute",
        label |-> "Travel home from gym"],
       [start |-> <<19, 40>>, end |-> <<23, 0>>, type |-> "free",
        label |-> "Evening block (3.3 hrs)"] >>

wfh_blocks ==
    << [start |-> <<7, 30>>, end |-> <<9, 0>>, type |-> "free",
        label |-> "Morning block (1.5 hrs)"],
       [start |-> <<9, 0>>, end |-> <<18, 0>>, type |-> "work", label |-> "Citco (WFH)"],
       [start |-> <<18, 0>>, end |-> <<23, 0>>, type |-> "free",
        label |-> "Evening block (5 hrs)"] >>

saturday_blocks ==
    << [start |-> <<7, 30>>, end |-> <<9, 15>>, type |-> "free",
        label |-> "Early morning (1.75 hrs)"],
       [start |-> <<9, 15>>, end |-> <<10, 45>>, type |-> "fixed",
        label |-> "Drive mam to guzheng school"],
       [start |-> <<10, 45>>, end |-> <<11, 15>>, type |-> "fixed",
        label |-> "Click & collect groceries (on way home)"],
       [start |-> <<11, 15>>, end |-> <<19, 0>>, type |-> "free",
        label |-> "Main block (7.75 hrs)"],
       [start |-> <<19, 0>>, end |-> <<20, 30>>, type |-> "fixed",
        label |-> "Pick up mam from guzheng"],
       [start |-> <<20, 30>>, end |-> <<23, 0>>, type |-> "free",
        label |-> "Evening block (2.5 hrs)"] >>

sunday_blocks ==
    << [start |-> <<7, 30>>, end |-> <<9, 15>>, type |-> "free",
        label |-> "Early morning (1.75 hrs)"],
       [start |-> <<9, 15>>, end |-> <<10, 45>>, type |-> "fixed",
        label |-> "Drive mam to guzheng school"],
       [start |-> <<10, 45>>, end |-> <<19, 0>>, type |-> "free",
        label |-> "Main block (8.25 hrs)"],
       [start |-> <<19, 0>>, end |-> <<20, 30>>, type |-> "fixed",
        label |-> "Pick up mam from guzheng"],
       [start |-> <<20, 30>>, end |-> <<23, 0>>, type |-> "free",
        label |-> "Evening block (2.5 hrs, keep light, wind down)"] >>

\* one pass of the loop over range(7)
template_day(week_start, day_offset) ==
    LET cutover == strptime(<<2026, 3, 1>>)
        office_days == IF week_start < cutover THEN {2, 3} ELSE {1, 2, 3}
        current_date == week_start + day_offset
        day_name == day_names[weekday(current_date) + 1]
        is_office == day_offset \in office_days
        is_gym_day == day_offset \in {0, 1}
    IN  IF day_offset < 5
        THEN [date |-> strftime(current_date), day |-> day_name,
              location |-> IF is_office THEN "office" ELSE "wfh",
              blocks |-> IF is_office THEN office_blocks
                         ELSE IF is_gym_day THEN wfh_gym_blocks ELSE wfh_blocks]
        ELSE [date |-> strftime(current_date), day |-> day_name, location |-> "home",
              blocks |-> IF day_offset = 5 THEN saturday_blocks ELSE sunday_blocks]

get_weekly_template_six_days(week_start) ==
    [week_start |-> strftime(week_start),
     days |-> [i \in 1..6 |-> template_day(week_start, i - 1)]]

\* week_start: a date ordinal at midnight
get_weekly_template(week_start) ==
    [week_start |-> strftime(week_start),
     days |-> [i \in 1..7 |-> template_day(week_start, i - 1)]]

\* the template is built for a week
weekly_template ==
    \E week_start \in TemplateWeeks :
        /\ last' = [Blank EXCEPT !.op = "weekly_template", !.week_start = week_start,
                                 !.template = get_weekly_template(week_start)]
        /\ UNCHANGED <<pending_plan, calendar, next_cal_id, schedule_events, faulted,
                       lift_vars, nudge_vars, io_vars>>


\* ------------------------------------------------- exercise adjustment
AdjustInputs ==
    { [exercise_name |-> <<"Leg", "Press">>, new_weight |-> 1100],
      [exercise_name |-> <<"Back", "Squat">>, new_weight |-> 575] }

\* fail_at: the store call that raises (1: the template update, 2: the select
\* of the future sessions, 2 + k: the update for the k-th session; 0: none);
\* nothing guards the calls, so what was written before the raise stays
adjust_exercise_weight ==
    \E a \in AdjustInputs :
        LET ids == future_sessions(training_sessions, LiftDays[today]) IN
        \E fail_at \in 0..(Len(ids) + 2) :
            LET c == IF fail_at = 0
                     THEN cascade_loop(ids, 1, training_exercises, a.exercise_name,
                                       a.new_weight, 0)
                     ELSE IF fail_at = 1
                     THEN [exercises |-> training_exercises, raised |-> TRUE]
                     ELSE IF fail_at = 2
                     THEN [exercises |-> training_exercises, raised |-> TRUE]
                     ELSE cascade_loop(ids, 1, training_exercises, a.exercise_name,
                                       a.new_weight, fail_at - 1)
            IN  /\ workout_templates' =
                       IF fail_at = 1 THEN workout_templates
                       ELSE update_template_weight(workout_templates, a.exercise_name,
                                                   a.new_weight)
                /\ training_exercises' = c.exercises
                /\ last_lift' = [BlankLift EXCEPT !.op = "adjust",
                                                  !.result = IF c.raised THEN "error"
                                                             ELSE "adjusted",
                                                  !.new_weight = <<a.new_weight>>,
                                                  !.cascade_raised = c.raised]
                /\ UNCHANGED <<main_lift_progress, training_sessions, training_blocks,
                               today, plan_vars, nudge_vars, io_vars>>

\* ------------------------------------------------------ check-in nudges
\* the job queue starts at 20:52
ClockStart == 20 * 60 + 52

\* minutes from the start to the first run of the job: it falls on 20:55,
\* five minutes before the block ends, or on 20:57
FirstRuns == {3, 5}

\* strftime("%H:%M")
strftime_hm(minutes) == <<(minutes % 1440) \div 60, minutes % 60>>

\* failed: some call of the job has raised so far
IdleNudge ==
    [pc |-> "idle", runs |-> 0, events |-> <<>>, i |-> 0, now |-> <<>>, failed |-> FALSE]

\* the schedule_events of today when the job polls: one LeetCode block,
\* planned or completed, or the block approved twice
NudgeTables ==
    LET row(id, e, status) ==
            [id |-> id, date |-> e.date, start_time |-> e.start, end_time |-> e.end,
             title |-> e.title, category |-> e.category, status |-> status]
    IN  {<<row(1, DayEvents.short, status)>> : status \in {"planned", "completed"}}
        \cup {<<row(1, DayEvents.short, "planned"), row(2, DayEvents.short, "planned")>>}

\* five_mins_ago <= end_time[:5] <= now_str and event["status"] == "planned"
just_ended(event, now) ==
    /\ hhmm(strftime_hm(hhmm(now) - 5)) <= hhmm(event.end_time)
    /\ hhmm(event.end_time) <= hhmm(now)
    /\ event.status = "planned"

\* the for loop from position i up to the next event to prompt for (0: none)
RECURSIVE next_nudge(_, _, _)
next_nudge(events, i, now) ==
    IF i > Len(events) THEN 0
    ELSE IF just_ended(events[i], now) THEN i
    ELSE next_nudge(events, i + 1, now)

nudge_writes_snapshot(rows, event) ==
    [k \in 1..Len(rows) |-> IF rows[k].id = event.id THEN event ELSE rows[k]]

\* the schedule_events table after the job prompted for an event: the job
\* issues no update
nudge_writes(rows, event) == rows

\* the loop from position i of the events read; it stops at the await of
\* send_message (raises: the send raises and the job ends) or at the end
nudge_loop(events, i, now, runs, failed) ==
    LET j == next_nudge(events, i, now) IN
    IF j = 0
    THEN /\ nudge' = [pc |-> "idle", runs |-> runs, events |-> events, i |-> 0, now |-> now,
                      failed |-> failed]
         /\ UNCHANGED <<sent, schedule_events>>
    ELSE \E raises \in BOOLEAN :
         IF raises
         THEN /\ nudge' = [pc |-> "idle", runs |-> runs, events |-> events, i |-> 0,
                           now |-> now, failed |-> TRUE]
              /\ UNCHANGED <<sent, schedule_events>>
         ELSE /\ nudge' = [pc |-> "awaiting", runs |-> runs, events |-> events, i |-> j,
                           now |-> now, failed |-> failed]
              /\ sent' = Append(sent, events[j].id)
              /\ schedule_events' = nudge_writes(schedule_events, events[j])

\* the job fires: first some minutes after the start, then every five
\* minutes; it reads today's events and runs up to its first await
check_for_nudges ==
    /\ nudge.pc = "idle"
    /\ nudge.runs < MaxPolls
    /\ \E d \in (IF nudge.runs = 0 THEN FirstRuns ELSE {5}) :
          /\ clock' = clock + d
          /\ \/ \* the select raises: logged, the job ends
                /\ nudge' = [pc |-> "idle", runs |-> nudge.runs + 1, events |-> <<>>,
                             i |-> 0, now |-> strftime_hm(clock + d), failed |-> TRUE]
                /\ UNCHANGED <<sent, schedule_events>>
             \/ \E events \in get_planned_events_for_date(schedule_events, LiftDays[today]) :
                    nudge_loop(events, 1, strftime_hm(clock + d), nudge.runs + 1,
                               nudge.failed)
    /\ UNCHANGED <<pending_plan, calendar, next_cal_id, last, faulted, lift_vars, io_vars>>

\* send_message returned: the loop goes on with the events read before
check_for_nudges_resume ==
    /\ nudge.pc = "awaiting"
    /\ nudge_loop(nudge.events, nudge.i + 1, nudge.now, nudge.runs, nudge.failed)
    /\ UNCHANGED <<clock, pending_plan, calendar, next_cal_id, last, faulted, lift_vars, io_vars>>

\* a check-in handled at the time of the clock
process_check_in_now == check_in({strftime_hm(clock)})

\* ----------------------------------------------------- message handling
MaxMessages == 2

ALLOWED_USER_ID == 1

None == "None"

BlankIo ==
    [op |-> "init", raised |-> FALSE, result |-> None, block |-> "none",
     logged |-> FALSE, replied |-> FALSE, entries |-> <<>>, counted |-> <<>>,
     imported |-> 0, skipped |-> 0, attempts |-> 0]

\* a value json.loads can return; a key of an object is <<>> when the object
\* does not carry it and <<v>> when it does
JsonValue(kind, action, idea, idea_fragment, status) ==
    [kind |-> kind, action |-> action, idea |-> idea,
     idea_fragment |-> idea_fragment, status |-> status]

NoJson == JsonValue("none", <<>>, <<>>, <<>>, <<>>)

IdeaTexts == {<<"boat">>, <<"kayak">>}

\* the objects the model returns: no action key, an unknown action, park_idea
\* and resolve_idea with and without their required keys, and check_in as one
\* of the actions process_action hands to a process_* function
ActionObjects ==
    {JsonValue("object", <<>>, <<>>, <<>>, <<>>),
     JsonValue("object", <<"dance">>, <<>>, <<>>, <<>>),
     JsonValue("object", <<"check_in">>, <<>>, <<>>, <<>>)}
    \cup {JsonValue("object", <<"park_idea">>, idea, <<>>, <<>>) :
              idea \in {<<>>, <<(<<"boat">>)>>}}
    \cup {JsonValue("object", <<"resolve_idea">>, <<>>, fragment, status) :
              fragment \in {<<>>} \cup {<<t>> : t \in IdeaTexts},
              status \in {<<>>, <<"approved">>, <<"rejected">>}}

\* JSON texts that are not objects: [..], "..", 3, null
OtherJson == {JsonValue(kind, <<>>, <<>>, <<>>, <<>>) :
                  kind \in {"array", "string", "number", "null"}}

\* the model's reply is a sequence of pieces: prose, a newline, the fences
\* ```json and ```, and a JSON text
Piece(t, s, v) == [t |-> t, s |-> s, v |-> v]
Prose(s) == Piece("prose", s, NoJson)
Newline == Piece("nl", "newline", NoJson)
FenceJson == Piece("fence_json", "fence json", NoJson)
Fence == Piece("fence", "fence", NoJson)
Json(v) == Piece("json", "json", v)

LlmReplies ==
    {<<Prose("Done.")>>,
     <<Prose("Done."), FenceJson, Json(JsonValue("object", <<"dance">>, <<>>, <<>>, <<>>))>>,
     <<Prose("Done."), FenceJson, Newline, Fence>>,
     <<FenceJson, Prose("oops"), Fence, Prose("Done.")>>,
     <<FenceJson, Json(NoJson), Json(NoJson), Fence>>,
     <<FenceJson, Json(JsonValue("object", <<"dance">>, <<>>, <<>>, <<>>)),
       FenceJson, Prose("Done.")>>}
    \cup {<<Prose("Done."), Newline, FenceJson, Newline, Json(v), Newline, Fence, Newline>> :
              v \in ActionObjects \cup OtherJson}

\* str.index(sub, start): the first piece from start on that holds sub,
\* 0 for ValueError
index(reply, subs, start) ==
    IF \E i \in start..Len(reply) : reply[i].t \in subs
    THEN CHOOSE i \in start..Len(reply) :
             /\ reply[i].t \in subs
             /\ \A j \in start..(i - 1) : reply[j].t \notin subs
    ELSE 0

\* str.strip()
RECURSIVE strip(_)
strip(text) ==
    IF text = <<>> THEN text
    ELSE IF Head(text).t = "nl" THEN strip(Tail(text))
    ELSE IF text[Len(text)].t = "nl" THEN strip(SubSeq(text, 1, Len(text) - 1))
    ELSE text

\* json.loads(json_str): the value of the one JSON text, <<>> for JSONDecodeError
parse_json(json_str) ==
    IF Len(json_str) = 1 /\ json_str[1].t = "json" /\ json_str[1].v.kind # "none"
    THEN <<json_str[1].v>>
    ELSE <<>>

\* get_parked_ideas(): status parked, newest first
RECURSIVE get_parked_ideas(_, _)
get_parked_ideas(ideas, i) ==
    IF i = 0 THEN <<>>
    ELSE IF ideas[i].status = "parked"
         THEN <<i>> \o get_parked_ideas(ideas, i - 1)
         ELSE get_parked_ideas(ideas, i - 1)

\* resolve_idea: the first parked idea holding the fragment is resolved
resolve_idea(ideas, idea_fragment, status) ==
    LET parked == get_parked_ideas(ideas, Len(ideas))
        hits == {k \in 1..Len(parked) :
                     is_substring(lower(idea_fragment), lower(ideas[parked[k]].idea))}
    IN  IF hits = {} THEN [success |-> FALSE, ideas |-> ideas]
        ELSE LET k == CHOOSE k \in hits : \A h \in hits : k <= h
             IN  [success |-> TRUE,
                  ideas |-> [ideas EXCEPT ![parked[k]].status = status]]

ActionError == "Error processing action"

\* the status line of the resolve_idea branch
resolved_line(success, status) ==
    IF ~success THEN "Could not find parked idea"
    ELSE IF status = "approved" THEN "Idea resolved: approved"
    ELSE "Idea resolved: not approved"

\* process_action: action_data.get("action") stands before the try, so a value
\* that is no object raises AttributeError; inside the try a missing key
\* (KeyError) and a failing handler are caught and reported as a warning.  The
\* process_* functions it hands to are modelled by their own actions; here
\* only their outcome counts: a status line, or an exception that is caught
process_action(action_data, ideas, store_raises) ==
    IF action_data.kind # "object"
    THEN [raised |-> TRUE, result |-> None, ideas |-> ideas]
    ELSE IF action_data.action = <<"park_idea">>
    THEN IF action_data.idea = <<>> \/ store_raises
         THEN [raised |-> FALSE, result |-> ActionError, ideas |-> ideas]
         ELSE [raised |-> FALSE, result |-> "Parked",
               ideas |-> Append(ideas, [idea |-> action_data.idea[1], status |-> "parked"])]
    ELSE IF action_data.action = <<"resolve_idea">>
    THEN IF action_data.idea_fragment = <<>> \/ action_data.status = <<>> \/ store_raises
         THEN [raised |-> FALSE, result |-> ActionError, ideas |-> ideas]
         ELSE LET r == resolve_idea(ideas, action_data.idea_fragment[1], action_data.status[1])
              IN  [raised |-> FALSE,
                   result |-> resolved_line(r.success, action_data.status[1]),
                   ideas |-> r.ideas]
    ELSE IF action_data.action = <<"check_in">>
    THEN IF store_raises
         THEN [raised |-> FALSE, result |-> ActionError, ideas |-> ideas]
         ELSE [raised |-> FALSE, result |-> "Checked in", ideas |-> ideas]
    ELSE [raised |-> FALSE, result |-> None, ideas |-> ideas]

\* the block of handle_message that processes the JSON action of a reply:
\* what is parsed, what process_action returns, and the reply that is left
process_reply(reply, ideas, store_raises) ==
    LET at == index(reply, {"fence_json"}, 1)
        json_end == IF at = 0 THEN 0 ELSE index(reply, {"fence", "fence_json"}, at + 1)
        parsed == IF json_end = 0 THEN <<>>
                  ELSE parse_json(strip(SubSeq(reply, at + 1, json_end - 1)))
        rest == (IF json_end # 0 /\ reply[json_end].t = "fence_json"
                 THEN <<Prose("json")>> ELSE <<>>)
                \o SubSeq(reply, json_end + 1, Len(reply))
    IN  IF at = 0
        THEN [block |-> "none", logged |-> FALSE, raised |-> FALSE,
              error_msg |-> None, reply |-> reply, ideas |-> ideas]
        ELSE IF json_end = 0 \/ parsed = <<>>
        THEN [block |-> "unparseable", logged |-> TRUE, raised |-> FALSE,
              error_msg |-> None, reply |-> reply, ideas |-> ideas]
        ELSE LET r == process_action(parsed[1], ideas, store_raises)
             IN  [block |-> "parsed", logged |-> FALSE, raised |-> r.raised,
                  error_msg |-> r.result,
                  reply |-> strip(SubSeq(reply, 1, at - 1) \o rest),
                  ideas |-> r.ideas]

\* handle_message for a message that reaches the model (no approval keyword,
\* no pasted diary) and a model call that answers with `reply`
handle_message ==
    /\ Len(replies) < MaxMessages
    /\ Len(conversations) < 2 * MaxMessages
    /\ \E user_id \in {ALLOWED_USER_ID, ALLOWED_USER_ID + 1}, reply \in LlmReplies,
          store_raises \in BOOLEAN :
         IF user_id # ALLOWED_USER_ID
         THEN /\ replies' = Append(replies, <<Prose("Plato serves only one master.")>>)
              /\ last_io' = [BlankIo EXCEPT !.op = "handle_message", !.block = "refused",
                                            !.replied = TRUE]
              /\ UNCHANGED <<conversations, idea_parking_lot>>
         ELSE \E r \in {process_reply(reply, idea_parking_lot, store_raises)} :
                LET saved == Append(conversations, [role |-> "user", content |-> <<Prose("hi")>>])
                    text == IF r.error_msg # None
                            THEN <<Prose(r.error_msg), Newline, Newline>> \o r.reply
                            ELSE r.reply
                IN  /\ idea_parking_lot' = r.ideas
                    /\ last_io' = [BlankIo EXCEPT !.op = "handle_message", !.block = r.block,
                                                  !.raised = r.raised, !.result = r.error_msg,
                                                  !.logged = r.logged, !.replied = ~r.raised]
                    /\ IF r.raised
                       THEN /\ conversations' = saved
                            /\ UNCHANGED replies
                       ELSE /\ conversations' = Append(saved, [role |-> "assistant", content |-> text])
                            /\ replies' = Append(replies, text)
    /\ UNCHANGED <<plan_vars, lift_vars, nudge_vars, transactions, nutrition_logs>>

\* -------------------------------------------------------------- imports
MaxImport == 2

\* parsed CSV rows (amounts in cents)
Txns ==
    {[date |-> <<2026, 2, 2>>, description |-> "Tesco", amount |-> 0 - 2350],
     [date |-> <<2026, 2, 2>>, description |-> "Salary", amount |-> 250000],
     [date |-> <<2026, 2, 3>>, description |-> "Tesco", amount |-> 0 - 2350]}

\* parsed diary days
NutritionEntries ==
    {[date |-> d, calories |-> c] : d \in {<<2026, 2, 2>>, <<2026, 2, 3>>},
                                     c \in {2500, 3000}}

\* the lists of up to max_len entries out of a set, repeats allowed
RECURSIVE Lists(_, _)
Lists(set, max_len) ==
    IF max_len = 0 THEN {<<>>}
    ELSE LET shorter == Lists(set, max_len - 1)
         IN  shorter \cup {Append(l, e) : l \in {x \in shorter : Len(x) = max_len - 1},
                                          e \in set}

\* supabase.table("transactions").insert(txn): the table refuses a row it
\* already holds with a duplicate key error (23505); any call may fail otherwise
insert_transaction(table, txn, fails) ==
    IF fails THEN [raised |-> TRUE, duplicate |-> FALSE, table |-> table]
    ELSE IF \E k \in 1..Len(table) : table[k] = txn
    THEN [raised |-> TRUE, duplicate |-> TRUE, table |-> table]
    ELSE [raised |-> FALSE, duplicate |-> FALSE, table |-> Append(table, txn)]

\* the for loop of import_transactions from entry i on; st carries the table,
\* the two counters and, per entry, whether it was there already and how it
\* was counted
RECURSIVE import_transactions_loop(_, _, _, _)
import_transactions_loop(txns, i, failing, st) ==
    IF i > Len(txns) THEN st
    ELSE LET existed == \E k \in 1..Len(st.table) : st.table[k] = txns[i]
             r == insert_transaction(st.table, txns[i], i \in failing)
         IN  import_transactions_loop(txns, i + 1, failing,
                 [table |-> r.table,
                  imported |-> IF r.raised THEN st.imported ELSE st.imported + 1,
                  skipped |-> IF r.raised THEN st.skipped + 1 ELSE st.skipped,
                  existed |-> Append(st.existed, existed),
                  counted |-> Append(st.counted,
                                     IF r.raised THEN "skipped" ELSE "imported")])

import_transactions ==
    \E txns \in Lists(Txns, MaxImport), failing \in SUBSET (1..MaxImport) :
        /\ failing \subseteq 1..Len(txns)
        /\ \E st \in {import_transactions_loop(txns, 1, failing,
                          [table |-> transactions, imported |-> 0, skipped |-> 0,
                           existed |-> <<>>, counted |-> <<>>])} :
              /\ transactions' = st.table
              /\ last_io' = [BlankIo EXCEPT !.op = "import_transactions",
                                            !.entries = st.existed,
                                            !.counted = st.counted,
                                            !.attempts = Len(txns),
                                            !.imported = st.imported,
                                            !.skipped = st.skipped]
        /\ UNCHANGED <<plan_vars, lift_vars, nudge_vars, conversations, replies,
                       idea_parking_lot, nutrition_logs>>

\* supabase.table("nutrition_logs").upsert(entry, on_conflict="date"): the
\* row of that date is replaced, a new date is added
upsert_nutrition(table, entry, fails) ==
    IF fails THEN [raised |-> TRUE, table |-> table]
    ELSE IF \E k \in 1..Len(table) : table[k].date = entry.date
    THEN [raised |-> FALSE,
          table |-> [k \in 1..Len(table) |->
                        IF table[k].date = entry.date THEN entry ELSE table[k]]]
    ELSE [raised |-> FALSE, table |-> Append(table, entry)]

RECURSIVE import_nutrition_loop(_, _, _, _)
import_nutrition_loop(entries, i, failing, st) ==
    IF i > Len(entries) THEN st
    ELSE LET existed == \E k \in 1..Len(st.table) : st.table[k].date = entries[i].date
             r == upsert_nutrition(st.table, entries[i], i \in failing)
         IN  import_nutrition_loop(entries, i + 1, failing,
                 [table |-> r.table,
                  imported |-> IF r.raised THEN st.imported ELSE st.imported + 1,
                  skipped |-> IF r.raised THEN st.skipped + 1 ELSE st.skipped,
                  existed |-> Append(st.existed, existed),
                  counted |-> Append(st.counted,
                                     IF r.raised THEN "skipped" ELSE "imported")])

import_nutrition ==
    \E entries \in Lists(NutritionEntries, MaxImport), failing \in SUBSET (1..MaxImport) :
        /\ failing \subseteq 1..Len(entries)
        /\ \E st \in {import_nutrition_loop(entries, 1, failing,
                          [table |-> nutrition_logs, imported |-> 0, skipped |-> 0,
                           existed |-> <<>>, counted |-> <<>>])} :
              /\ nutrition_logs' = st.table
              /\ last_io' = [BlankIo EXCEPT !.op = "import_nutrition",
                                            !.entries = st.existed,
                                            !.counted = st.counted,
                                            !.attempts = Len(entries),
                                            !.imported = st.imported,
                                            !.skipped = st.skipped]
        /\ UNCHANGED <<plan_vars, lift_vars, nudge_vars, conversations, replies,
                       idea_parking_lot, transactions>>

\* ------------------------------------------------------ specification
Init ==
    /\ pending_plan = <<>>
    /\ calendar = UserEvents
    /\ next_cal_id = 1
    /\ schedule_events = <<>>
    /\ last = Blank
    /\ faulted = FALSE
    /\ main_lift_progress = <<>>
    /\ workout_templates = SeedTemplates
    /\ training_sessions = <<>>
    /\ training_exercises = <<>>
    /\ training_blocks = <<>>
    /\ today = 1
    /\ last_lift = BlankLift
    /\ clock = ClockStart
    /\ nudge = IdleNudge
    /\ sent = <<>>
    /\ conversations = <<>>
    /\ replies = <<>>
    /\ idea_parking_lot = <<>>
    /\ transactions = <<>>
    /\ nutrition_logs = <<>>
    /\ last_io = BlankIo

PlanNext ==
    \/ process_plan_week
    \/ do_clear_pending_plan
    \/ process_approve_plan

SpecPlan == Init /\ [][PlanNext]_vars

LiftNext ==
    \/ log_training_session
    \/ do_generate_block_workouts
    \/ confirm_progression
    \/ next_day

SpecLift == Init /\ [][LiftNext]_vars

AdjustNext == do_generate_block_workouts \/ adjust_exercise_weight \/ next_day

SpecAdjust == Init /\ [][AdjustNext]_vars

DayNext ==
    \/ process_plan_week_day
    \/ process_approve_plan_up
    \/ process_audrey_time
    \/ process_check_in

SpecDay == Init /\ [][DayNext]_vars

TemplateNext == weekly_template \/ next_day

SpecTemplate == Init /\ [][TemplateNext]_vars

\* the store a block is created in: any set of splits has templates, and a
\* session may have been logged before
GenerateInit ==
    /\ pending_plan = <<>>
    /\ calendar = UserEvents
    /\ next_cal_id = 1
    /\ schedule_events = <<>>
    /\ last = Blank
    /\ faulted = FALSE
    /\ main_lift_progress = <<>>
    /\ workout_templates \in TemplateTables
    /\ training_sessions \in {<<>>, <<LoggedBefore>>}
    /\ training_exercises = <<>>
    /\ training_blocks = <<>>
    /\ today = 1
    /\ last_lift = BlankLift
    /\ clock = ClockStart
    /\ nudge = IdleNudge
    /\ sent = <<>>
    /\ conversations = <<>>
    /\ replies = <<>>
    /\ idea_parking_lot = <<>>
    /\ transactions = <<>>
    /\ nutrition_logs = <<>>
    /\ last_io = BlankIo

GenerateNext == process_create_block

SpecGenerate == GenerateInit /\ [][GenerateNext]_vars

\* the store at the time the job queue starts
NudgeInit ==
    /\ pending_plan = <<>>
    /\ calendar = UserEvents
    /\ next_cal_id = 1
    /\ schedule_events \in NudgeTables
    /\ last = Blank
    /\ faulted = FALSE
    /\ main_lift_progress = <<>>
    /\ workout_templates = SeedTemplates
    /\ training_sessions = <<>>
    /\ training_exercises = <<>>
    /\ training_blocks = <<>>
    /\ today = 1
    /\ last_lift = BlankLift
    /\ clock = ClockStart
    /\ nudge = IdleNudge
    /\ sent = <<>>
    /\ conversations = <<>>
    /\ replies = <<>>
    /\ idea_parking_lot = <<>>
    /\ transactions = <<>>
    /\ nutrition_logs = <<>>
    /\ last_io = BlankIo

NudgeNext == check_for_nudges \/ check_for_nudges_resume \/ process_check_in_now

SpecNudge == NudgeInit /\ [][NudgeNext]_vars

MessageNext == handle_message

SpecMessage == Init /\ [][MessageNext]_vars

ImportNext == import_transactions \/ import_nutrition

SpecImport == Init /\ [][ImportNext]_vars

TrackNext == log_training_session_main_lift \/ confirm_progression

SpecTrack == Init /\ [][TrackNext]_vars

BlockNext == process_plan_next_block

SpecBlock == Init /\ [][BlockNext]_vars

\* the adherence report over the tables a week has filled
AdherenceInit ==
    /\ pending_plan = <<>>
    /\ calendar = UserEvents
    /\ next_cal_id = 1
    /\ schedule_events \in WeekRows(MaxWeekRows)
    /\ last = Blank
    /\ faulted = FALSE
    /\ main_lift_progress = <<>>
    /\ workout_templates = SeedTemplates
    /\ training_sessions = <<>>
    /\ training_exercises = <<>>
    /\ training_blocks = <<>>
    /\ today = 1
    /\ last_lift = BlankLift
    /\ clock = ClockStart
    /\ nudge = IdleNudge
    /\ sent = <<>>
    /\ conversations = <<>>
    /\ replies = <<>>
    /\ idea_parking_lot = <<>>
    /\ transactions = <<>>
    /\ nutrition_logs = <<>>
    /\ last_io = BlankIo

AdherenceNext == weekly_adherence

SpecAdherence == AdherenceInit /\ [][AdherenceNext]_vars

\* ------------------------------------------------------------ claims
\* the Monday of the week a date ordinal lies in
MondayOf(ord) == CHOOSE w \in (ord - 6)..ord : weekday(w) = 0

InWeek(date_str, monday) == strptime(date_str) \in monday..(monday + 6)

RowMatches(row, event) ==
    /\ row.date = event.date
    /\ row.start_time = event.start
    /\ row.end_time = event.end
    /\ row.title = event.title
    /\ row.status = "planned"

\* C1: an approval of a staged plan of N events that no failing service
\* build, listing, deletion or insert aborts makes exactly N calendar create
\* attempts and inserts exactly N ScheduleEvent rows with status "planned",
\* whichever creates failed, and leaves no pending plan staged.
C1_ApproveCounts ==
    (last.op = "approve" /\ last.result = "approved") =>
        LET n == Len(last.events)
            total == Len(schedule_events)
        IN  /\ n >= 1
            /\ last.create_attempts = n
            /\ last.stored = n
            /\ total >= n
            /\ \A i \in 1..n : RowMatches(schedule_events[total - n + i], last.events[i])
            /\ ~get_pending_plan(pending_plan).some
            /\ pending_plan = <<>>

C1_Witness ==
    /\ last.op = "approve" /\ last.result = "approved"
    /\ Len(last.events) = 2
    /\ last.create_failed = {1, 2}
    /\ last.create_attempts = 2
    /\ last.stored = 2

\* C2: with no plan staged, process_approve_plan answers "no pending plan"
\* and makes no calendar list, delete or create call and inserts no row.
C2_NothingStaged ==
    [][(falsy(get_pending_plan(pending_plan)) /\ last'.op = "approve") =>
          /\ last'.result = "no_pending"
          /\ last'.list_calls = 0
          /\ last'.delete_attempts = 0
          /\ last'.create_attempts = 0
          /\ last'.stored = 0
          /\ calendar' = calendar
          /\ next_cal_id' = next_cal_id
          /\ schedule_events' = schedule_events
          /\ pending_plan' = pending_plan]_vars

C2_Witness ==
    /\ last.op = "approve" /\ last.result = "no_pending"
    /\ schedule_events # <<>>
    /\ \E e \in calendar : is_plato_event(e)

\* C3: after staging B over a pending A, get_pending_plan returns B and no
\* row of the pending_plan table holds A any more.
C3_LastWriteWins ==
    (last.op = "plan_week" /\ last.result = "proposed") =>
        /\ get_pending_plan(pending_plan) = [some |-> TRUE, value |-> last.events]
        /\ \A i \in 1..Len(pending_plan) : json_loads(pending_plan[i].events) = last.events

C3_Witness ==
    /\ last.op = "plan_week" /\ last.result = "proposed"
    /\ last.replaced_other

\* C4: the pending_plan table never holds more than one batch.
C4_AtMostOnePending == Len(pending_plan) <= 1

C4_Witness ==
    /\ Len(pending_plan) = 1
    /\ last.op = "plan_week"
    /\ schedule_events # <<>>

\* C5: a delete call that raises in the clear step does not abort the
\* approval: every listed prefixed event is still attempted and the new
\* events are created and the tracking rows inserted.
C5_DeleteFailureIsolated ==
    (last.op = "approve" /\ last.delete_attempts > last.cleared) =>
        /\ last.delete_attempts = Cardinality({e \in last.listed : is_plato_event(e)})
        /\ last.create_attempts = Len(last.events)
        /\ last.stored = Len(last.events)
        /\ last.result = "approved"

\* C6: create_weekly_events attempts every event once and counts only the
\* creates that succeeded.
C6_CreateContinues ==
    (last.op = "approve" /\ last.step \in {"store", "done"}) =>
        LET n == Len(last.events) IN
        /\ last.create_attempts = n
        /\ last.created = n - Cardinality(last.create_failed)
        /\ last.created >= 0 /\ last.created <= n

C6_Witness ==
    /\ last.op = "approve" /\ last.step = "done"
    /\ Len(last.events) = 2
    /\ last.create_failed = {1}
    /\ last.created = 1

\* C7: while no collaborator call has ever failed, after an approval of a
\* plan lying in one week, the ScheduleEvent rows of that week and the prefixed calendar
\* events of that week are exactly the plan's N events.
C7_WeekReplaced ==
    (/\ last.op = "approve" /\ last.result = "approved"
     /\ ~faulted
     /\ \A i \in 1..Len(last.events) : InWeek(last.events[i].date, last.week_start)) =>
        LET n == Len(last.events)
            rows == {i \in 1..Len(schedule_events) :
                        InWeek(schedule_events[i].date, last.week_start)}
            shown == {e \in calendar :
                        is_plato_event(e) /\ InWeek(e.date, last.week_start)}
        IN  /\ Cardinality(rows) = n
            /\ Cardinality(shown) = n

C9_SecondConfirmNoOp ==
    [][(/\ last_lift.op = "confirm" /\ last_lift.result = "confirmed"
        /\ last_lift'.op = "confirm" /\ last_lift'.lift_key = last_lift.lift_key) =>
          /\ last_lift'.result = "no_pending"
          /\ workout_templates' = workout_templates]_vars

\* C10: after a confirm_progression that found the pending entry E and in
\* which no store call raised, E is confirmed and was the most recent
\* pending entry of the lift, every template row matching the lift's
\* exercise name holds E.next_weight_kg, and so does every matching exercise
\* row of every uncompleted session dated today or later.
C10_ConfirmCascade ==
    (last_lift.op = "confirm" /\ last_lift.result = "confirmed"
        /\ ~last_lift.cascade_raised) =>
        LET E == main_lift_progress[last_lift.entry]
            w == E.next_weight_kg[1]
            name == MAIN_LIFTS[last_lift.lift_key].name
        IN  /\ E.confirmed /\ E.hit_target /\ E.lift_name = last_lift.lift_key
            /\ \A j \in 1..Len(main_lift_progress) :
                   LET r == main_lift_progress[j]
                   IN  (r.lift_name = E.lift_name /\ r.hit_target /\ ~r.confirmed)
                           => strptime(r.date) <= strptime(E.date)
            /\ \A i \in 1..Len(workout_templates) :
                   ilike(workout_templates[i].exercise_name, name)
                       => workout_templates[i].current_weight_kg = w
            /\ \A k \in 1..Len(training_sessions) :
                   LET x == training_sessions[k]
                   IN  (~x.completed /\ strptime(x.date) >= strptime(LiftDays[today])) =>
                           \A i \in 1..Len(training_exercises) :
                               (/\ training_exercises[i].session_id = x.id
                                /\ ilike(training_exercises[i].exercise_name, name))
                                   => training_exercises[i].weight_kg = w

C10_Witness ==
    /\ last_lift.op = "confirm" /\ last_lift.result = "confirmed"
    /\ ~last_lift.cascade_raised
    /\ \E k \in 1..Len(training_sessions), i \in 1..Len(training_exercises) :
           /\ ~training_sessions[k].completed
           /\ training_exercises[i].session_id = training_sessions[k].id
           /\ training_exercises[i].exercise_name = <<"Pause", "back", "squat">>
           /\ training_exercises[i].weight_kg = last_lift.new_weight[1]
    /\ \E i \in 1..Len(training_exercises) :
           /\ training_exercises[i].exercise_name = <<"Leg", "Press">>
           /\ training_exercises[i].weight_kg # last_lift.new_weight[1]

\* C11: a confirm_progression leaves weight_kg as it was on every exercise
\* row whose session is completed or dated before today.
C11_ConfirmFrame ==
    [][(last_lift'.op = "confirm") =>
          \A i \in 1..Len(training_exercises) :
              \A k \in 1..Len(training_sessions) :
                  LET x == training_sessions[k]
                  IN  (/\ x.id = training_exercises[i].session_id
                       /\ (x.completed \/ strptime(x.date) < strptime(LiftDays[today])))
                          => training_exercises'[i] = training_exercises[i]]_vars

C11_Witness ==
    /\ last_lift.op = "confirm" /\ last_lift.result = "confirmed"
    /\ ~last_lift.cascade_raised
    /\ \E k \in 1..Len(training_sessions), i \in 1..Len(training_exercises) :
           /\ training_sessions[k].completed
           /\ training_exercises[i].session_id = training_sessions[k].id
           /\ ilike(training_exercises[i].exercise_name,
                    MAIN_LIFTS[last_lift.lift_key].name)
           /\ training_exercises[i].weight_kg # last_lift.new_weight[1]
    /\ \E k \in 1..Len(training_sessions), i \in 1..Len(training_exercises) :
           /\ ~training_sessions[k].completed
           /\ strptime(training_sessions[k].date) < strptime(LiftDays[today])
           /\ training_exercises[i].session_id = training_sessions[k].id
           /\ ilike(training_exercises[i].exercise_name,
                    MAIN_LIFTS[last_lift.lift_key].name)
           /\ training_exercises[i].weight_kg # last_lift.new_weight[1]

\* C12: when the future-session step of a confirm_progression was
\* interrupted and no other progression of the lift is pending, the next
\* confirm_progression for the same lift brings every matching exercise of
\* every uncompleted session dated today or later to the confirmed weight.
C12_ReconfirmRecovers ==
    [][(/\ last_lift.op = "confirm" /\ last_lift.result = "confirmed"
        /\ last_lift.cascade_raised
        /\ pending_progressions(main_lift_progress, last_lift.lift_key) = {}
        /\ last_lift'.op = "confirm" /\ last_lift'.lift_key = last_lift.lift_key
        /\ ~last_lift'.cascade_raised) =>
          \A k \in 1..Len(training_sessions') :
              LET x == training_sessions'[k]
              IN  (~x.completed /\ strptime(x.date) >= strptime(LiftDays[today'])) =>
                      \A i \in 1..Len(training_exercises') :
                          (/\ training_exercises'[i].session_id = x.id
                           /\ ilike(training_exercises'[i].exercise_name,
                                    MAIN_LIFTS[last_lift.lift_key].name))
                              => training_exercises'[i].weight_kg
                                     = last_lift.new_weight[1]]_vars

\* a ScheduleEvent row and a calendar event that stand for the same block
Corresponds(row, e) ==
    /\ e.summary = <<PLATO>> \o row.title
    /\ e.date = row.date /\ e.start = row.start_time /\ e.end = row.end_time

\* the rows of a date that are planned and have ended by now
CheckInCandidates(rows, date_str, now) ==
    {i \in 1..Len(rows) : /\ rows[i].date = date_str
                           /\ rows[i].status = "planned"
                           /\ hhmm(rows[i].end_time) <= hhmm(now)}

\* C13: an audrey_time action for (date, from_time) that no failing call
\* aborts deletes and returns exactly the prefixed calendar events of the
\* date that start at or after from_time, and leaves the status of every
\* row that starts before from_time as it was.
C13_CancelsFromTime ==
    [][(last'.op = "audrey_time" /\ last'.result \in {"activated", "nothing"}) =>
          LET evening == {e \in calendar : /\ is_plato_event(e)
                                           /\ e.date = last'.date
                                           /\ hhmm(e.start) >= hhmm(last'.from_time)}
          IN  /\ calendar \ calendar' = evening
              /\ calendar' \subseteq calendar
              /\ {last'.cancelled[i] : i \in 1..Len(last'.cancelled)} =
                     {[title |-> replace_prefix(e.summary, 1), start |-> e.start,
                       end |-> e.end] : e \in evening}
              /\ \A i \in 1..Len(schedule_events) :
                     hhmm(schedule_events[i].start_time) < hhmm(last'.from_time)
                         => schedule_events'[i] = schedule_events[i]]_vars

\* C14: an audrey_time action that no failing call aborts deletes no row;
\* the rows that correspond to a cancelled calendar event get status
\* "audrey_time", every other row stays as it was, and when no calendar
\* event and no row matches nothing changes and the result is the empty one.
C14_MarksNotDeletes ==
    [][(last'.op = "audrey_time" /\ last'.result \in {"activated", "nothing"}) =>
          LET gone == calendar \ calendar' IN
          /\ Len(schedule_events') = Len(schedule_events)
          /\ \A i \in 1..Len(schedule_events) :
                 IF \E e \in gone : Corresponds(schedule_events[i], e)
                 THEN schedule_events'[i] =
                          [schedule_events[i] EXCEPT !.status = "audrey_time"]
                 ELSE schedule_events'[i] = schedule_events[i]
          /\ (last'.result = "nothing") <=>
                 (calendar' = calendar /\ schedule_events' = schedule_events)]_vars

\* C16: a check-in without event id, when some row of today is planned and
\* has ended by now, updates exactly one row, a candidate with the greatest
\* end time.
C16_MostRecentlyEnded ==
    [][(last'.op = "check_in" /\ last'.result # "error" /\ last'.event_id = 0) =>
          LET cand == CheckInCandidates(schedule_events, last'.date, last'.now) IN
          cand # {} =>
              /\ last'.result = "checked_in"
              /\ \E i \in cand :
                     /\ schedule_events[i].id = last'.target
                     /\ \A j \in cand : hhmm(schedule_events[j].end_time)
                                            <= hhmm(schedule_events[i].end_time)
                     /\ schedule_events' =
                            [schedule_events EXCEPT ![i].status = last'.status]]_vars

\* C17: a check-in without event id, when no row of today is planned and
\* ended by now, answers that there is nothing to check in against and
\* changes no row.
C17_NothingToCheckIn ==
    [][(/\ last'.op = "check_in" /\ last'.result # "error" /\ last'.event_id = 0
        /\ CheckInCandidates(schedule_events, last'.date, last'.now) = {}) =>
          /\ last'.result = "nothing"
          /\ schedule_events' = schedule_events]_vars

C17_Witness ==
    /\ last.op = "check_in" /\ last.result = "nothing"
    /\ \E i \in 1..Len(schedule_events) :
           /\ schedule_events[i].date = last.date
           /\ schedule_events[i].status = "planned"
           /\ hhmm(schedule_events[i].end_time) > hhmm(last.now)
    /\ \E i \in 1..Len(schedule_events) :
           /\ schedule_events[i].date = last.date
           /\ schedule_events[i].status # "planned"
           /\ hhmm(schedule_events[i].end_time) <= hhmm(last.now)

\* C18: a check-in with an event id sets the status of the row with that
\* id to the given status, whatever status it held, and changes no other
\* row.
C18_ExplicitOverwrites ==
    [][(last'.op = "check_in" /\ last'.result # "error" /\ last'.event_id # 0) =>
          /\ last'.result = "checked_in"
          /\ Len(schedule_events') = Len(schedule_events)
          /\ \A i \in 1..Len(schedule_events) :
                 schedule_events'[i] =
                     IF schedule_events[i].id = last'.event_id
                     THEN [schedule_events[i] EXCEPT !.status = last'.status]
                     ELSE schedule_events[i]]_vars

C18_Witness ==
    /\ last.op = "check_in" /\ last.result = "checked_in" /\ last.event_id # 0
    /\ last.prev_status = "completed" /\ last.status = "skipped"
    /\ \E i \in 1..Len(schedule_events) :
           schedule_events[i].id = last.event_id /\ schedule_events[i].status = "skipped"
    /\ \E i \in 1..Len(schedule_events) :
           schedule_events[i].id # last.event_id /\ schedule_events[i].status = "audrey_time"

\* C15: get_weekly_adherence counts the rows dated in the seven days from
\* week_start, returns as adherence_pct the tenth nearest to
\* (completed + 0.5 * partial) / total * 100, 0 when there is no row, 62.5
\* for two completed, one partial and one skipped row, and changes no row.
C15_Adherence ==
    [][(last'.op = "adherence") =>
          LET W == {i \in 1..Len(schedule_events) :
                       strptime(schedule_events[i].date) \in
                           last'.week_start..(last'.week_start + 6)}
              c == Cardinality({i \in W : schedule_events[i].status = "completed"})
              p == Cardinality({i \in W : schedule_events[i].status = "partial"})
              k == Cardinality({i \in W : schedule_events[i].status = "skipped"})
              t == Cardinality(W)
              st == last'.stats
              off == st.adherence_pct * 2 * t - (2 * c + p) * 1000
          IN  /\ st.total = t /\ st.completed = c /\ st.partial = p /\ st.skipped = k
              /\ (t = 0) => st.adherence_pct = 0
              /\ (t > 0) => (off <= t /\ -off <= t)
              /\ (c = 2 /\ p = 1 /\ k = 1 /\ t = 4) => st.adherence_pct = 625
              /\ schedule_events' = schedule_events]_vars

C15_Witness ==
    /\ last.op = "adherence"
    /\ last.stats.completed = 2 /\ last.stats.partial = 1 /\ last.stats.skipped = 1
    /\ last.stats.total = 4
    /\ last.stats.adherence_pct = 625


\* the (year, month) a planned block was named after
BlockYearMonth(b) ==
    <<b.name[2], CHOOSE m \in 1..12 : month_name[m] = b.name[1]>>

\* C19: every planned block starts on the first Monday on or after the 1st of
\* its month and ends on the first Sunday on or after the last day of the
\* month, so start <= end and the range is a whole number of weeks; the block
\* of February 2026 runs from 2026-02-02 to 2026-03-01
C19_BlockDates ==
    \A i \in 1..Len(training_blocks) :
        LET b == training_blocks[i]
            ym == BlockYearMonth(b)
            first_day == strptime(<<ym[1], ym[2], 1>>)
            last_day == strptime(<<ym[1], ym[2], DaysInMonth(ym[1], ym[2])>>)
            block_start == strptime(b.start_date)
            block_end == strptime(b.end_date)
        IN  /\ weekday(block_start) = 0 /\ first_day <= block_start /\ block_start - first_day < 7
            /\ weekday(block_end) = 6 /\ last_day <= block_end /\ block_end - last_day < 7
            /\ block_start <= block_end
            /\ (block_end - block_start + 1) % 7 = 0
            /\ ym = <<2026, 2>> => /\ b.start_date = <<2026, 2, 2>>
                                   /\ b.end_date = <<2026, 3, 1>>

\* the block of February 2026 and a block whose month begins on a Monday
C19_Witness ==
    /\ \E i \in 1..Len(training_blocks) :
           BlockYearMonth(training_blocks[i]) = <<2026, 2>>
    /\ \E i \in 1..Len(training_blocks) :
           training_blocks[i].start_date[3] = 1

\* the month of b comes right after the month of a
FollowingMonth(a, b) ==
    LET ya == BlockYearMonth(a)[1]
        ma == BlockYearMonth(a)[2]
        yb == BlockYearMonth(b)[1]
        mb == BlockYearMonth(b)[2]
    IN  \/ ya = yb /\ mb = ma + 1
        \/ yb = ya + 1 /\ ma = 12 /\ mb = 1

\* C20: the ranges of blocks planned for two different months never overlap,
\* the block of the following month starts the day after the earlier block
\* ends, and no date holds generated sessions of two such blocks
C20_BlocksDisjoint ==
    \A i \in 1..Len(training_blocks), j \in 1..Len(training_blocks) :
        LET a == training_blocks[i]
            b == training_blocks[j]
        IN  BlockYearMonth(a) # BlockYearMonth(b) =>
              /\ \/ strptime(a.end_date) < strptime(b.start_date)
                 \/ strptime(b.end_date) < strptime(a.start_date)
              /\ FollowingMonth(a, b) =>
                     strptime(b.start_date) = strptime(a.end_date) + 1
              /\ \A p \in 1..Len(training_sessions), q \in 1..Len(training_sessions) :
                     ~ /\ training_sessions[p].block_id = <<a.id>>
                       /\ training_sessions[q].block_id = <<b.id>>
                       /\ training_sessions[p].date = training_sessions[q].date

\* two blocks of consecutive months, each with generated sessions
C20_Witness ==
    \E i \in 1..Len(training_blocks), j \in 1..Len(training_blocks) :
        /\ FollowingMonth(training_blocks[i], training_blocks[j])
        /\ \E p \in 1..Len(training_sessions) :
               training_sessions[p].block_id = <<training_blocks[i].id>>
        /\ \E q \in 1..Len(training_sessions) :
               training_sessions[q].block_id = <<training_blocks[j].id>>

\* a template holds exactly 7 days dated D .. D+6; in each day the first
\* block starts at 07:30, each block starts where the previous one ends, and
\* the last ends at 23:00
TemplateShape ==
    last.op = "weekly_template" =>
        LET days == last.template.days IN
        /\ Len(days) = 7
        /\ \A i \in 1..7 :
              LET blocks == days[i].blocks IN
              /\ days[i].date = strftime(last.week_start + i - 1)
              /\ Len(blocks) >= 1
              /\ blocks[1].start = <<7, 30>>
              /\ blocks[Len(blocks)].end = <<23, 0>>
              /\ \A k \in 1..Len(blocks) : hhmm(blocks[k].start) < hhmm(blocks[k].end)
              /\ \A k \in 1..(Len(blocks) - 1) : blocks[k + 1].start = blocks[k].end

\* C21: every template built for a Monday D holds exactly 7 days dated
\* D .. D+6 whose blocks run from 07:30 to 23:00 without gap or overlap, and
\* two templates built for the same Monday are equal, whatever the day on
\* which they are built
C21_Template ==
    /\ []TemplateShape
    /\ [][(last.op = "weekly_template" /\ last'.op = "weekly_template"
             /\ last'.week_start = last.week_start) => last'.template = last.template]_vars

\* a template of a week after the cutover, built on a later day than the
\* start of the model
C21_Witness ==
    /\ last.op = "weekly_template"
    /\ last.week_start >= strptime(<<2026, 3, 1>>)
    /\ weekday(last.week_start) = 0
    /\ today > 1

\* the weekly split: Monday Push, Tuesday Legs, Thursday Upper Hypertrophy,
\* Saturday Shoulders + Arms
SplitOfWeekday ==
    { <<0, "Push">>, <<1, "Legs">>, <<3, "Upper Hypertrophy">>, <<5, "Shoulders + Arms">> }

HasTemplate(split) ==
    \E i \in 1..Len(workout_templates) : workout_templates[i].session_type = split

\* C22: a created block holds exactly one new session for each date of
\* [start, end] that is a Monday, Tuesday, Thursday or Saturday whose split
\* has a template, uncompleted and with the block's id, and no other new
\* session; whole weeks with all four templates give 4 sessions per week
C22_OneSessionPerSplitDay ==
    (last_lift.op = "create_block" /\ last_lift.result = "created") =>
        LET start == last_lift.range[1]
            end == last_lift.range[2]
            new == (last_lift.before + 1)..Len(training_sessions)
            due == {<<d, p[2]>> : d \in start..end, p \in SplitOfWeekday}
            wanted == {x \in due : <<weekday(x[1]), x[2]>> \in SplitOfWeekday
                                      /\ HasTemplate(x[2])}
        IN  /\ \A x \in wanted :
                  Cardinality({i \in new : training_sessions[i].date = strftime(x[1])}) = 1
            /\ \A i \in new :
                  /\ \E x \in wanted : /\ training_sessions[i].date = strftime(x[1])
                                       /\ training_sessions[i].session_type = x[2]
                  /\ training_sessions[i].completed = FALSE
                  /\ training_sessions[i].block_id = <<last_lift.block_id>>
            /\ last_lift.entry = Cardinality(new)
            /\ \A i \in 1..last_lift.before : training_sessions[i] = LoggedBefore
            /\ (/\ weekday(start) = 0 /\ weekday(end) = 6 /\ start <= end
                /\ \A p \in SplitOfWeekday : HasTemplate(p[2]))
                  => Cardinality(new) = 4 * ((end - start + 1) \div 7)

\* two whole weeks with all four templates, created after a logged session
C22_Witness ==
    /\ last_lift.op = "create_block" /\ last_lift.result = "created"
    /\ last_lift.range = <<strptime(<<2026, 2, 2>>), strptime(<<2026, 2, 15>>)>>
    /\ \A p \in SplitOfWeekday : HasTemplate(p[2])
    /\ last_lift.before = 1
    /\ last_lift.entry = 8

\* C23: the exercises of a generated session are inserted with the template
\* weight of that moment, and afterwards the weight of such an exercise
\* changes only in a confirm_progression step, and only while its session is
\* uncompleted and dated today or later
C23_SnapshotUntilConfirmed ==
    [][/\ \A i \in (Len(training_exercises) + 1)..Len(training_exercises') :
              last_lift'.op = "generate" =>
                  \E t \in 1..Len(workout_templates) :
                      /\ workout_templates[t].exercise_name =
                             training_exercises'[i].exercise_name
                      /\ workout_templates[t].current_weight_kg =
                             training_exercises'[i].weight_kg
       /\ \A i \in 1..Len(training_exercises) :
              \A k \in 1..Len(training_sessions) :
                  LET x == training_sessions[k]
                  IN  (/\ x.id = training_exercises[i].session_id
                       /\ x.block_id # <<>>
                       /\ training_exercises'[i].weight_kg # training_exercises[i].weight_kg)
                          => /\ last_lift'.op = "confirm"
                             /\ ~x.completed
                             /\ strptime(x.date) >= strptime(LiftDays[today])]_vars

\* C24: a step of the check_for_nudges job never changes a schedule_events
\* row, and after every check-in, however the job's steps fall around it, the
\* row checked in holds the status the check-in wrote
C24_LastWriteWins ==
    /\ [][nudge' # nudge => schedule_events' = schedule_events]_vars
    /\ []((last.op = "check_in" /\ last.result = "checked_in"
             /\ status_of(schedule_events, last.target) # "none")
            => status_of(schedule_events, last.target) = last.status)

\* the job read the event as planned, the check-in completed it while the
\* job was waiting on a send, and the job then prompted for it and ended
C24_Witness ==
    /\ nudge.pc = "idle" /\ nudge.runs >= 1
    /\ last.op = "check_in" /\ last.result = "checked_in"
    /\ last.status = "completed"
    /\ last.now = nudge.now
    /\ Len(sent) >= 2 /\ sent[Len(sent)] = last.target
    /\ \E k \in 1..Len(nudge.events) :
           nudge.events[k].id = last.target /\ nudge.events[k].status = "planned"
    /\ status_of(schedule_events, last.target) = "completed"

\* the number of prompts sent for an event
PromptsFor(event_id) == Cardinality({k \in 1..Len(sent) : sent[k] = event_id})

\* C30: once the job has run, none of its calls raising, at or after the end
\* of an event of today that was planned all along, exactly one prompt has
\* been sent for it, never two at any time, and no prompt is sent for an
\* event that is not planned
C30_ExactlyOnePrompt ==
    /\ [](\A k \in 1..Len(schedule_events) : PromptsFor(schedule_events[k].id) <= 1)
    /\ []((nudge.pc = "idle" /\ nudge.runs >= 1 /\ ~nudge.failed /\ last.op = "init") =>
            \A k \in 1..Len(schedule_events) :
                (/\ schedule_events[k].status = "planned"
                 /\ hhmm(schedule_events[k].end_time) <= hhmm(nudge.now))
                    => PromptsFor(schedule_events[k].id) = 1)
    /\ [][\A k \in 1..Len(schedule_events) :
             PromptsFor(schedule_events[k].id)' > PromptsFor(schedule_events[k].id)
                 => schedule_events[k].status = "planned"]_vars

\* C25: whatever JSON value the reply of the model carries, process_action
\* does not raise and handle_message sends its reply; a JSON block that
\* cannot be parsed is logged and skipped, no action runs and no status line
\* is put before the reply
C25_ActionNeverBreaks ==
    [][last_io'.op = "handle_message" =>
          /\ ~last_io'.raised
          /\ Len(replies') = Len(replies) + 1
          /\ last_io'.block = "unparseable" =>
                 /\ last_io'.logged
                 /\ last_io'.result = None
                 /\ idea_parking_lot' = idea_parking_lot]_vars

\* C26: import_transactions and import_nutrition go through every entry
\* without raising, imported + skipped is the number of entries, and an
\* entry the table already holds is counted as skipped
C26_DuplicatesSkipped ==
    last_io.op \in {"import_transactions", "import_nutrition"} =>
        /\ ~last_io.raised
        /\ Len(last_io.counted) = last_io.attempts
        /\ last_io.imported + last_io.skipped = last_io.attempts
        /\ \A i \in 1..Len(last_io.entries) :
               last_io.entries[i] => last_io.counted[i] = "skipped"

\* the top of the rep range of a lift, as the claim lists them
RepRangeTop(lift_name) == IF lift_name = "squat" THEN 10 ELSE 8

\* C27: every stored main-lift entry has hit_target exactly when its reps
\* reach the top of the rep range of its lift (8, for squat 10) and its sets
\* are at least 4; next_weight_kg is its weight plus 2.5 kg when hit_target
\* and null otherwise; an entry is stored with confirmed = false
C27_HitTarget ==
    /\ [](\A i \in 1..Len(main_lift_progress) :
            LET row == main_lift_progress[i] IN
            /\ row.hit_target <=> (row.reps >= RepRangeTop(row.lift_name) /\ row.sets >= 4)
            /\ row.next_weight_kg = IF row.hit_target THEN <<row.weight_kg + 25>> ELSE <<>>)
    /\ [][\A i \in (Len(main_lift_progress) + 1)..Len(main_lift_progress') :
              ~main_lift_progress'[i].confirmed]_vars

\* a squat of 4 x 10 and a row of 3 x 8 are stored: the first hit its
\* target, the second has the reps and not the sets
C27_Witness ==
    /\ \E i \in 1..Len(main_lift_progress) :
           /\ main_lift_progress[i].lift_name = "squat"
           /\ main_lift_progress[i].reps = 10 /\ main_lift_progress[i].sets = 4
           /\ main_lift_progress[i].hit_target
    /\ \E i \in 1..Len(main_lift_progress) :
           /\ main_lift_progress[i].lift_name = "barbell_row"
           /\ main_lift_progress[i].reps = 8 /\ main_lift_progress[i].sets = 3
           /\ ~main_lift_progress[i].hit_target

\* C29: a confirmed entry has hit_target and a next_weight_kg; confirmed
\* never goes back to false, goes to true only in confirm_progression, and
\* one call of confirm_progression confirms at most one entry
C29_ConfirmedEntries ==
    /\ [](\A i \in 1..Len(main_lift_progress) :
            main_lift_progress[i].confirmed =>
                /\ main_lift_progress[i].hit_target
                /\ main_lift_progress[i].next_weight_kg # <<>>)
    /\ [][/\ Len(main_lift_progress') >= Len(main_lift_progress)
          /\ \A i \in 1..Len(main_lift_progress) :
                 /\ main_lift_progress[i].confirmed => main_lift_progress'[i].confirmed
                 /\ (~main_lift_progress[i].confirmed /\ main_lift_progress'[i].confirmed)
                        => (last_lift'.op = "confirm" /\ last_lift'.result = "confirmed")
          /\ Cardinality({i \in 1..Len(main_lift_progress) :
                              ~main_lift_progress[i].confirmed
                              /\ main_lift_progress'[i].confirmed}) <= 1]_vars

\* two squat entries of one date both hit the target; one confirmation has
\* confirmed one of them and left the other pending
C29_Witness ==
    /\ last_lift.op = "confirm" /\ last_lift.result = "confirmed"
    /\ \E i, j \in 1..Len(main_lift_progress) :
           /\ i # j
           /\ main_lift_progress[i].lift_name = main_lift_progress[j].lift_name
           /\ main_lift_progress[i].date = main_lift_progress[j].date
           /\ main_lift_progress[i].hit_target /\ main_lift_progress[j].hit_target
           /\ main_lift_progress[i].confirmed /\ ~main_lift_progress[j].confirmed

\* C28: an approval that found a pending plan and ended with an error (the
\* service, the listing, a deletion or an insert raised) leaves the pending
\* plan staged as it was; an approval clears the pending plan only when all
\* N tracking rows of the plan were inserted
C28_PendingKeptOnError ==
    [][(last'.op = "approve" /\ last'.result # "no_pending") =>
          /\ last'.result = "error" =>
                 /\ pending_plan' = pending_plan
                 /\ get_pending_plan(pending_plan').value = last'.events
          /\ pending_plan' # pending_plan =>
                 /\ last'.stored = Len(last'.events)
                 /\ Len(schedule_events') = Len(schedule_events) + Len(last'.events)]_vars

\* the second insert of a two-event plan raised: one tracking row is in,
\* the approval reported the error and the plan is still staged
C28_Witness ==
    /\ last.op = "approve" /\ last.result = "error" /\ last.step = "store"
    /\ Len(last.events) = 2 /\ last.stored = 1
    /\ pending_plan # <<>>
    /\ get_pending_plan(pending_plan).value = last.events

====
